---- MODULE Spec2Model ----
(***************************************************************************)
(* Model of the Hall A analyzer decoder sources:                           *)
(*   Decoder::PipeliningModule  (src/hana_decode/THaEtClient.cxx 518-721,  *)
(*                               declaration in src/unnamed/part_001)      *)
(*                                                                         *)
(* A 32-bit data word is the pair <<hi, lo>> of its upper and lower 16     *)
(* bits (TLC integers are 32-bit signed, a word with bit 31 set does not   *)
(* fit into one).  Every shift-and-mask of the source is computed on that  *)
(* pair: (data >> 31) & 0x1 is hi \div 32768, (data >> 27) & 0xF is        *)
(* (hi \div 2048) % 16, (data >> 22) & 0x1F is (hi \div 64) % 32 and       *)
(* data & 0xFF is lo % 256.                                                *)
(***************************************************************************)
EXTENDS Integers, Sequences, FiniteSets, TLC

VARIABLES
  pm,          \* pm[i]: the members of PipeliningModule instance i
  codabuffer,  \* codabuffer[i]: the argument of the last SplitBuffer call on i
  entry,       \* entry[i]: fMultiBlockMode of i when that SplitBuffer call started
  lastop,      \* lastop[i]: the last public call made on instance i
  ret,         \* ret[i]: what that call returned
  base,        \* base[i]: the last call on i other than GetNextBlock
  ncalls,      \* ncalls[i]: the number of GetNextBlock calls on i since then
  nwarn,       \* nwarn[i]: the inconsistent-slot occurrences instance i has met
  fb,          \* fb[i]: the members of FastbusModule instance i
  fb0,         \* fb0[i]: the members of i as constructed and configured
  first_load,  \* the function-local static of FastbusModule::LoadSlot
  nloads,      \* nloads[i]: LoadSlot calls completed on i (0, 1, 2 = several)
  fbcall,      \* the last completed LoadSlot call: arguments and effects
  fbrun,       \* fbrun[i]: the LoadSlot call in progress on i (concurrent runs)
  et,          \* the members of the THaEtClient
  etsys,       \* the ET system the client talks to
  etchunk,     \* the events of the last chunk et_events_get delivered
  etcall,      \* the last codaRead or codaClose call: result and ET calls made
  dbfile,      \* the lines of the open database file
  dbcall,      \* the last database call: arguments, file positions and results
  buffers,     \* the function-local static map of Here: thread id -> text
  hthread      \* hthread[t]: the Here call of thread t and what it returned

\* the variables of the PipeliningModule instances and their calls
pmvars == <<pm, codabuffer, entry, lastop, ret, base, ncalls, nwarn>>
\* the variables of the FastbusModule instances and their calls
fbvars == <<fb, fb0, first_load, nloads, fbcall, fbrun>>

\* the variables of the ET client
etvars == <<et, etsys, etchunk, etcall>>

\* the variables of the database functions
dbvars == <<dbfile, dbcall, buffers, hthread>>

vars == <<pmvars, fbvars, etvars, dbvars>>

(***************************************************************************)
(* Bounds of the model.                                                    *)
(***************************************************************************)
\* events generated per block of the module's own slot: 0..MaxEvents
MaxEvents == 2
\* GetNextBlock is not called once index_buffer has reached MaxIndex
MaxIndex == 3
\* SplitBuffer is not called when it would take the inconsistent-slot
\* occurrences an instance has met above MaxWarnings
MaxWarnings == 1
\* et_events_get is not issued while MaxHeld chunks are held and not put back
MaxHeld == 2
\* in the runs that follow the warning counter, the first instance meets at
\* most MaxSeen inconsistent-slot occurrences, the second at most MaxSeenOther
MaxSeen == 102
MaxSeenOther == 2

\* the module instances
Insts == {1, 2}
\* <<the slot of the modules under test, the slot of a neighbouring module>>
TheSlots == <<3, 5>>
OwnSlot == TheSlots[1]
OtherSlot == TheSlots[2]
\* values of Module::fDebug the instances are configured with
DebugLevels == {0, 1}

(***************************************************************************)
(* Bit fields of a data word.                                              *)
(***************************************************************************)
\* (data >> 31) & 0x1
TypeId(data) == (data[1] \div 32768) % 2
\* (data >> 27) & 0xF
TypeDef(data) == (data[1] \div 2048) % 16
\* (data >> 22) & 0x1F
SlotOf(data) == (data[1] \div 64) % 32
\* (data >> 0) & 0xFF
BlockSizeOf(data) == data[2] % 256

\* a UInt_t counter is the pair <<hi, lo>> as well: ++ wraps from 0xFFFFFFFF
\* to 0, and since 65536 % 100 = 36 the value % 100 is (36 * hi + lo) % 100
Inc32(w) ==
  IF w[2] < 65535 THEN <<w[1], w[2] + 1>>
  ELSE IF w[1] < 65535 THEN <<w[1] + 1, 0>>
  ELSE <<0, 0>>
Mod100(w) == (36 * (w[1] % 100) + w[2]) % 100

\* The frame words of the JLab pipelining format, built from their fields.
BlkHdr(slot, nev) == <<32768 + (0 * 2048) + (slot * 64), nev>>
BlkTrl(slot, nwords) == <<32768 + (1 * 2048) + (slot * 64), nwords>>
EvtHdr(slot, evnum) == <<32768 + (2 * 2048) + (slot * 64), evnum>>
\* a type-defining data word of type typ (3..15)
Tagged(typ, val) == <<32768 + (typ * 2048), val>>
\* a data continuation word (bit 31 clear); its bits 26..22 hold slotbits
Untagged(slotbits, val) == <<slotbits * 64, val>>

(***************************************************************************)
(* PipeliningModule::PipeliningModule                                      *)
(***************************************************************************)
NewModule(slot, debug) ==
  [ fSlot            |-> slot,
    fDebug           |-> debug,
    fNWarnings       |-> <<0, 0>>,
    fBlockHeader     |-> <<0, 0>>,
    data_type_def    |-> 15,
    fFirstTime       |-> TRUE,
    index_buffer     |-> 0,
    fMultiBlockMode  |-> FALSE,
    fBlockIsDone     |-> FALSE,
    block_size       |-> 0,
    eventblock       |-> <<>> ]

(***************************************************************************)
(* PipeliningModule::ReStart                                               *)
(***************************************************************************)
ReStart(m) == [m EXCEPT !.index_buffer = 0, !.fBlockIsDone = FALSE]

\* GetIndex with the cursor taken for the index (no "- 1")
GetIndexOffByOne(m) ==
  IF m.index_buffer > 0 /\ m.index_buffer < Len(m.eventblock) THEN m.index_buffer ELSE 0

(***************************************************************************)
(* PipeliningModule::GetIndex: the 0-based index into eventblock, 0 when   *)
(* index_buffer is 0 or past the end (a warning is printed).               *)
(***************************************************************************)
GetIndex(m) ==
  LET idx == m.index_buffer - 1
  IN  IF m.index_buffer > 0 /\ idx < Len(m.eventblock) THEN idx ELSE 0

(***************************************************************************)
(* PipeliningModule::GetNextBlock: the members after the call and the      *)
(* vector returned.                                                        *)
(***************************************************************************)
GetNextBlock(m) ==
  IF m.eventblock = <<>>
    THEN [m |-> m, block |-> <<>>]
  ELSE IF ~m.fMultiBlockMode
    THEN [m |-> m, block |-> m.eventblock[1]]
  ELSE LET m1 == [m EXCEPT
                    !.fBlockIsDone = IF m.index_buffer = Len(m.eventblock) - 1
                                       THEN TRUE ELSE @,
                    !.index_buffer = @ + 1]
       IN  [m |-> m1, block |-> m1.eventblock[GetIndex(m1) + 1]]

(***************************************************************************)
(* PipeliningModule::PrintBlocks.  The loop calls GetNextBlock until       *)
(* BlockIsDone(); it throws once its counter passes maxloops.  When a      *)
(* GetNextBlock call changes no member (empty eventblock) every further    *)
(* iteration is the same, so the counter runs to maxloops and the loop     *)
(* throws.                                                                 *)
(***************************************************************************)
maxloops == 5000000

RECURSIVE PrintLoop(_, _)
PrintLoop(m, icnt) ==
  IF m.fBlockIsDone THEN [m |-> m, thrown |-> FALSE]
  ELSE IF icnt > maxloops THEN [m |-> m, thrown |-> TRUE]
  ELSE LET n == GetNextBlock(m).m
       IN  IF n = m THEN [m |-> m, thrown |-> TRUE]
           ELSE PrintLoop(n, icnt + 1)

PrintBlocks(m) ==
  IF ~m.fMultiBlockMode THEN [m |-> m, thrown |-> FALSE]
  ELSE LET r == PrintLoop(ReStart(m), 0)
       IN  IF r.thrown THEN r ELSE [m |-> ReStart(r.m), thrown |-> FALSE]

(***************************************************************************)
(* PipeliningModule::SplitBuffer.                                          *)
(* A loop state holds the members (m), the locals of SplitBuffer and the   *)
(* number of inconsistent-slot warnings written to cerr (printed) out of   *)
(* the number of times the inconsistency was met (seen).                   *)
(***************************************************************************)
LoopInit(m) ==
  [ m              |-> [m EXCEPT !.block_size = 0],
    slot_blk_hdr   |-> 0,
    slot_evt_hdr   |-> 0,
    BlockStart     |-> 0,
    oneEventBuffer |-> <<>>,
    printed        |-> 0,
    seen           |-> 0 ]

\* the warning printed when the counter reads 1, 101, 201, ...
PrintsWarningAtOne(counter) == Mod100(counter) = 1

\* (fNWarnings++ % 100) == 0, on the value before the increment
PrintsWarning(counter) == Mod100(counter) = 0

\* case 0 with the multiblock flag following the block_size of each header
CaseBlockHeaderFollows(st, data) ==
  IF TypeId(data) = 1
    THEN LET slot == SlotOf(data)
             bs   == BlockSizeOf(data)
             mb   == bs > 1
         IN  [st EXCEPT !.m.fBlockHeader = data,
                        !.slot_blk_hdr = slot,
                        !.m.block_size = bs,
                        !.m.fMultiBlockMode = mb,
                        !.BlockStart = IF mb /\ slot = st.m.fSlot THEN 1 ELSE @]
    ELSE st

\* case 0 of the switch: block header
CaseBlockHeader(st, data) ==
  IF TypeId(data) = 1
    THEN LET slot == SlotOf(data)
             bs   == BlockSizeOf(data)
             mb   == st.m.fMultiBlockMode \/ bs > 1
         IN  [st EXCEPT !.m.fBlockHeader = data,
                        !.slot_blk_hdr = slot,
                        !.m.block_size = bs,
                        !.m.fMultiBlockMode = mb,
                        !.BlockStart = IF mb /\ slot = st.m.fSlot THEN 1 ELSE @]
    ELSE st

\* case 1 of the switch: block trailer
CaseBlockTrailer(st, data) ==
  IF st.m.fMultiBlockMode /\ SlotOf(data) = st.m.fSlot
    THEN [st EXCEPT !.BlockStart = @ + 1,
                    !.m.eventblock = Append(@, Append(st.oneEventBuffer, data)),
                    !.oneEventBuffer = <<>>]
    ELSE st

\* case 2 of the switch: event header
CaseEventHeader(st, data) ==
  LET s1 == [st EXCEPT !.slot_evt_hdr = SlotOf(data),
                       !.BlockStart = IF st.slot_blk_hdr = st.m.fSlot
                                        THEN @ + 1 ELSE @]
  IN  IF s1.m.fMultiBlockMode /\ s1.slot_blk_hdr = s1.m.fSlot
        THEN LET s2 == IF s1.BlockStart # 2
                         THEN [s1 EXCEPT !.m.eventblock = Append(@, s1.oneEventBuffer),
                                         !.oneEventBuffer = <<>>]
                         ELSE s1
             IN  [s2 EXCEPT !.oneEventBuffer = @ \o <<s2.m.fBlockHeader, data>>]
        ELSE s1

\* the default case without the slot filter
CaseOtherDataAnySlot(st, data) ==
  LET s1 == IF st.slot_blk_hdr # st.slot_evt_hdr
              THEN [st EXCEPT !.m.fNWarnings = Inc32(@),
                              !.seen = @ + 1,
                              !.printed = IF PrintsWarning(st.m.fNWarnings)
                                            THEN @ + 1 ELSE @]
              ELSE st
  IN  IF s1.m.fMultiBlockMode
        THEN [s1 EXCEPT !.oneEventBuffer = Append(@, data)]
        ELSE s1

\* default of the switch: all other data
CaseOtherData(st, data) ==
  LET s1 == IF st.slot_blk_hdr # st.slot_evt_hdr
              THEN [st EXCEPT !.m.fNWarnings = Inc32(@),
                              !.seen = @ + 1,
                              !.printed = IF PrintsWarning(st.m.fNWarnings)
                                            THEN @ + 1 ELSE @]
              ELSE st
  IN  IF s1.m.fMultiBlockMode /\ s1.slot_blk_hdr = s1.m.fSlot
        THEN [s1 EXCEPT !.oneEventBuffer = Append(@, data)]
        ELSE s1

\* one iteration of the loop over codabuffer
SplitWord(st, data) ==
  LET s1 == IF TypeId(data) = 1
              THEN [st EXCEPT !.m.data_type_def = TypeDef(data)]
              ELSE st
  IN  CASE s1.m.data_type_def = 0 -> CaseBlockHeader(s1, data)
        [] s1.m.data_type_def = 1 -> CaseBlockTrailer(s1, data)
        [] s1.m.data_type_def = 2 -> CaseEventHeader(s1, data)
        [] OTHER                  -> CaseOtherData(s1, data)

\* the loop state after the words of buf, in order
RECURSIVE SplitLoop(_, _)
SplitLoop(st, buf) ==
  IF buf = <<>> THEN st
  ELSE SplitLoop(SplitWord(st, Head(buf)), Tail(buf))

\* the legacy exit: eventblock.push_back(codabuffer); index_buffer = 1; return 1
PassThrough(m, buf) ==
  [ m       |-> [m EXCEPT !.eventblock = Append(@, buf), !.index_buffer = 1],
    code    |-> 1,
    thrown  |-> FALSE,
    printed |-> 0,
    seen    |-> 0,
    error   |-> FALSE ]

\* the first statements of SplitBuffer without eventblock.clear()
ClearBlocksKeep(m) == [m EXCEPT !.fBlockIsDone = FALSE]

\* the first statements of SplitBuffer: eventblock.clear(), fBlockIsDone = false
ClearBlocks(m) == [m EXCEPT !.eventblock = <<>>, !.fBlockIsDone = FALSE]

SplitBuffer(m, buf) ==
  LET m0 == ClearBlocks(m)
  IN  IF ~m0.fFirstTime /\ ~m0.fMultiBlockMode
        THEN PassThrough(m0, buf)
      ELSE LET st == SplitLoop(LoopInit(m0), buf)
               m1 == [st.m EXCEPT !.fFirstTime = FALSE]
           IN  IF ~m1.fMultiBlockMode
                 THEN [PassThrough(m1, buf) EXCEPT !.printed = st.printed,
                                                   !.seen = st.seen]
               ELSE LET p == IF m1.fDebug >= 1 THEN PrintBlocks(m1)
                                               ELSE [m |-> m1, thrown |-> FALSE]
                    IN  [ m       |-> p.m,
                          code    |-> 0,
                          thrown  |-> p.thrown,
                          printed |-> st.printed,
                          seen    |-> st.seen,
                          error   |-> m1.block_size # Len(m1.eventblock) ]

(***************************************************************************)
(* The wire buffers handed to SplitBuffer.  A block is a block header, its *)
(* events (an event header followed by data words) and a block trailer;    *)
(* a buffer carries the block of the module's slot alone, or together      *)
(* with the block of a neighbouring module, or is one of a few buffers     *)
(* that do not follow the format.                                          *)
(***************************************************************************)
\* a data continuation word (bit 31 clear)
Du == Untagged(0, 291)
\* a type-defining data word (type 4)
D4 == Tagged(4, 66)
\* a continuation word whose bits 26..22 happen to equal the module's slot
DuOwn == Untagged(OwnSlot, 7)
\* the data words of the neighbouring module; the bits 26..22 of its
\* continuation word happen to equal the slot of the module under test
Df4 == Tagged(4, 99)
Dfu == Untagged(OwnSlot, 77)

\* the data words of one event
DataPatterns == { <<Du>>, <<D4, Du>> }

\* the sequences of length n over the set S
RECURSIVE SeqsOfLen(_, _)
SeqsOfLen(S, n) ==
  IF n = 0 THEN { <<>> }
  ELSE { Append(q, x) : q \in SeqsOfLen(S, n - 1), x \in S }

\* the events number 'from'.. of a block: headers carry evslot, data from pats
RECURSIVE EventWords(_, _, _)
EventWords(evslot, pats, from) ==
  IF pats = <<>> THEN <<>>
  ELSE <<EvtHdr(evslot, from)>> \o Head(pats)
         \o EventWords(evslot, Tail(pats), from + 1)

\* a block: header, events, trailer (the trailer carries the word count)
Block(slot, evslot, nev, pats) ==
  LET evs == EventWords(evslot, pats, 0)
  IN  <<BlkHdr(slot, nev)>> \o evs \o <<BlkTrl(slot, Len(evs) + 2)>>

\* blocks of the module's own slot, declaring 1 or 2 events
OwnBlocks ==
  { Block(OwnSlot, OwnSlot, nev, pats) :
      nev \in {1, 2},
      pats \in UNION { SeqsOfLen(DataPatterns, k) : k \in 0..MaxEvents } }

\* blocks of the neighbouring slot; in the second one the event headers carry
\* the slot number of the module under test
ForeignBlocks ==
  { <<BlkHdr(OtherSlot, 1), EvtHdr(OtherSlot, 8), Df4, Dfu, BlkTrl(OtherSlot, 5)>>,
    <<BlkHdr(OtherSlot, 2), EvtHdr(OwnSlot, 8), Dfu, EvtHdr(OwnSlot, 9), Df4,
      BlkTrl(OtherSlot, 6)>> }

\* blocks of the own slot whose event headers carry slot 0 (older firmware)
OldFirmwareBlocks ==
  { Block(OwnSlot, 0, 2, << <<D4>>, <<>> >>),
    Block(OwnSlot, 0, 1, << <<D4>> >>) }

\* the own blocks that share a buffer with a neighbour's block
MixBlocks ==
  { Block(OwnSlot, OwnSlot, 2, << <<D4, Du>>, <<>> >>),
    Block(OwnSlot, OwnSlot, 1, << <<D4, Du>> >>),
    Block(OwnSlot, 0, 2, << <<D4>>, <<>> >>) }

WellFormedBuffers ==
  OwnBlocks \cup ForeignBlocks \cup OldFirmwareBlocks
    \cup { f \o b : f \in ForeignBlocks, b \in MixBlocks }
    \cup { b \o f : f \in ForeignBlocks, b \in MixBlocks }

MalformedBuffers ==
  { <<EvtHdr(OwnSlot, 0), D4, BlkTrl(OwnSlot, 3)>>,
    Block(OwnSlot, OwnSlot, 2, << <<D4>> >>) \o <<EvtHdr(OwnSlot, 1), D4>>,
    Block(OwnSlot, OwnSlot, 2, << <<D4>> >>) \o <<DuOwn>>,
    Block(OtherSlot, OtherSlot, 2, << <<Df4>> >>) \o <<DuOwn>>,
    <<DuOwn, Du>> \o Block(OwnSlot, OwnSlot, 2, << <<D4>>, <<D4>> >>),
    Block(OwnSlot, OwnSlot, 2, << <<D4>>, <<D4>> >>)
      \o Block(OwnSlot, OwnSlot, 2, << <<Du>>, <<D4>> >>) }

Buffers == WellFormedBuffers \cup MalformedBuffers

(***************************************************************************)
(* Decoder::FastbusModule (src/hana_decode/THaEtClient.cxx 408-478).       *)
(* FastbusModule.h and Decoder.h are not among the sources: IsSlot, Chan   *)
(* and Data follow the description of the decoder (slot, channel and data  *)
(* fields taken by mask and shift), and MAXROC and MAXSLOT_FB, whose       *)
(* values Decoder.h sets, stand for the number of readout crates and the   *)
(* largest slot number the 5-bit slot field holds.                         *)
(***************************************************************************)
MAXROC == 32
MAXSLOT_FB == 31

\* bitwise AND and OR of two n-bit numbers
RECURSIVE And16(_, _, _)
And16(a, b, n) ==
  IF n = 0 THEN 0
  ELSE (a % 2) * (b % 2) + 2 * And16(a \div 2, b \div 2, n - 1)

\* w & mask, w | v and w >> s of 32-bit words
AndW(w, mask) == <<And16(w[1], mask[1], 16), And16(w[2], mask[2], 16)>>
OrW(w, v) ==
  <<w[1] + v[1] - And16(w[1], v[1], 16), w[2] + v[2] - And16(w[2], v[2], 16)>>
ShiftR(w, s) ==
  IF s >= 16 THEN <<0, w[1] \div (2 ^ (s - 16))>>
  ELSE <<w[1] \div (2 ^ s), (w[1] % (2 ^ s)) * (2 ^ (16 - s)) + w[2] \div (2 ^ s)>>
\* v << s for a number v below 2^15, truncated to 32 bits
ShiftL(v, s) ==
  IF s >= 16 THEN <<(v * (2 ^ (s - 16))) % 65536, 0>>
  ELSE <<(v * (2 ^ s)) \div 65536, (v * (2 ^ s)) % 65536>>

\* FastbusModule::Init: fSlotMask = 0xf8000000, fSlotShift = 27
fSlotMask == <<63488, 0>>
fSlotShift == 27

\* the constructor, Init and the masks a module class sets for itself
NewFastbus(crate, slot, cfg) ==
  [ fCrate      |-> crate,
    fSlot       |-> slot,
    fHasHeader  |-> cfg.fHasHeader,
    fChanMask   |-> cfg.fChanMask,
    fChanShift  |-> cfg.fChanShift,
    fDataMask   |-> cfg.fDataMask,
    fWdcntMask  |-> cfg.fWdcntMask,
    fHeader     |-> <<0, 0>>,
    fWordsSeen  |-> 0,
    fChan       |-> <<0, 0>>,
    fData       |-> <<0, 0>>,
    fRawData    |-> <<0, 0>> ]

\* the slot, channel and data fields of a word
Slot(m, rdata) == ShiftR(AndW(rdata, fSlotMask), fSlotShift)
IsSlot(m, rdata) == Slot(m, rdata) = <<0, m.fSlot>>
Chan(m, rdata) == ShiftR(AndW(rdata, m.fChanMask), m.fChanShift)
Data(m, rdata) == AndW(rdata, m.fDataMask)

\* Decode with the channel field left unshifted
DecodeNoShift(m, word) ==
  [m EXCEPT !.fChan = AndW(word, m.fChanMask),
            !.fData = Data(m, word),
            !.fRawData = word]

\* FastbusModule::Decode
Decode(m, word) ==
  [m EXCEPT !.fChan = Chan(m, word),
            !.fData = Data(m, word),
            !.fRawData = word]

\* LoadSlot up to the loop: the bounds check made while first_load is set,
\* then fWordsSeen = 0, fHeader = 0
LoadSlotCheck(m, fl) ==
  LET m1 == IF fl
              THEN [m EXCEPT !.fCrate = IF @ >= MAXROC THEN 0 ELSE @,
                             !.fSlot = IF @ > MAXSLOT_FB THEN 0 ELSE @]
              ELSE m
  IN  [m1 EXCEPT !.fWordsSeen = 0, !.fHeader = <<0, 0>>]

\* the body of the loop with the header word forwarded like any other
LoadWordNoHeader(sc, word) ==
  LET d == Decode(sc.m, word)
  IN  [sc EXCEPT !.m = [d EXCEPT !.fWordsSeen = @ + 1],
                 !.hits = Append(@, [chan |-> d.fChan, data |-> d.fData,
                                     raw |-> d.fRawData]),
                 !.at = Append(@, sc.p),
                 !.p = @ + 1]

\* the body of the loop for the word at p: header capture or Decode and
\* sldat->loadData(fChan, fData, fRawData); fWordsSeen++; p++
LoadWord(sc, word) ==
  IF sc.m.fHasHeader /\ sc.m.fWordsSeen = 0
    THEN [sc EXCEPT !.m = [sc.m EXCEPT !.fHeader = word, !.fWordsSeen = @ + 1],
                    !.p = @ + 1]
    ELSE LET d == Decode(sc.m, word)
         IN  [sc EXCEPT !.m = [d EXCEPT !.fWordsSeen = @ + 1],
                        !.hits = Append(@, [chan |-> d.fChan, data |-> d.fData,
                                            raw |-> d.fRawData]),
                        !.at = Append(@, sc.p),
                        !.p = @ + 1]

\* fWordsExpect = (fHeader & fWdcntMask), and the test made on it after the
\* loop: a header was captured and fWordsExpect != fWordsSeen (the message
\* goes to the debug file only)
WordsExpect(m) == AndW(m.fHeader, m.fWdcntMask)
WordCountMismatch(m) ==
  m.fHeader # <<0, 0>> /\ WordsExpect(m) # <<0, m.fWordsSeen>>

\* the loop ending as soon as the word count of the header is reached
RECURSIVE LoadLoopToCount(_, _, _)
LoadLoopToCount(sc, evbuffer, pstop) ==
  LET rd == [sc EXCEPT !.reads = @ \cup {sc.p}]
  IN  IF ~IsSlot(rd.m, evbuffer[rd.p]) THEN rd
      ELSE LET nx == LoadWord(rd, evbuffer[rd.p])
           IN  IF nx.p > pstop \/ ~WordCountMismatch(nx.m) THEN nx
               ELSE LoadLoopToCount(nx, evbuffer, pstop)

\* while (IsSlot(*p)) { ...; if (p > pstop) break; }
\* sc.reads: the positions of evbuffer read; sc.at: the positions forwarded
RECURSIVE LoadLoop(_, _, _)
LoadLoop(sc, evbuffer, pstop) ==
  LET rd == [sc EXCEPT !.reads = @ \cup {sc.p}]
  IN  IF ~IsSlot(rd.m, evbuffer[rd.p]) THEN rd
      ELSE LET nx == LoadWord(rd, evbuffer[rd.p])
           IN  IF nx.p > pstop THEN nx
               ELSE LoadLoop(nx, evbuffer, pstop)

\* FastbusModule::LoadSlot on members m with the static first_load = fl;
\* evbuffer is the event buffer, start the position the pointer argument
\* designates and pstop the position of the last word of the range
LoadSlot(m, fl, evbuffer, start, pstop) ==
  LET sc == LoadLoop([m |-> LoadSlotCheck(m, fl), p |-> start, hits |-> <<>>,
                      at |-> <<>>, reads |-> {}], evbuffer, pstop)
  IN  [ m |-> sc.m, hits |-> sc.hits, at |-> sc.at, reads |-> sc.reads,
        ret |-> sc.m.fWordsSeen ]

(***************************************************************************)
(* The Fastbus modules and event buffers of the model.                     *)
(***************************************************************************)
\* channel mask 0x001F0000, shift 16, data mask 0x0000FFFF, no header
CfgPlain ==
  [fHasHeader |-> FALSE, fChanMask |-> <<31, 0>>, fChanShift |-> 16,
   fDataMask |-> <<0, 65535>>, fWdcntMask |-> <<0, 0>>]
\* channel mask 0x00FE0000, shift 17, data mask 0x0000FFFF, with a header
\* whose word count is in bits 10-0 (mask 0x000007FF)
CfgHeader ==
  [fHasHeader |-> TRUE, fChanMask |-> <<254, 0>>, fChanShift |-> 17,
   fDataMask |-> <<0, 65535>>, fWdcntMask |-> <<0, 2047>>]

\* the word a module of configuration cfg in slot 'slot' writes for a hit
Encode(cfg, slot, chan, value) ==
  OrW(OrW(ShiftL(slot, fSlotShift), ShiftL(chan, cfg.fChanShift)), <<0, value>>)

\* the two module instances: <<crate, slot, configuration>> of instance 1
\* and of instance 2; crate 40 and slot 40 are out of bounds
FbSetups ==
  { << <<1, 31, CfgPlain>>,  <<2, 3, CfgHeader>> >>,
    << <<1, 31, CfgHeader>>, <<2, 3, CfgPlain>> >>,
    << <<1, 40, CfgPlain>>,  <<2, 3, CfgHeader>> >>,
    << <<1, 31, CfgPlain>>,  <<40, 40, CfgHeader>> >>,
    << <<40, 31, CfgHeader>>, <<2, 40, CfgPlain>> >> }

\* the channels and values of the hits in the buffers
FbChans == {1, 31}
FbValues == {291, 65535}
\* hits of the modules in slots 31 and 3, and a word with slot bits 0
Hit31 == Encode(CfgPlain, 31, 1, 291)
Hit31b == Encode(CfgHeader, 31, 31, 65535)
Hit3 == Encode(CfgHeader, 3, 1, 291)
Hit3b == Encode(CfgPlain, 3, 31, 65535)
Word0 == <<0, 2>>

FbBuffers ==
  { <<Word0, Hit31>>,
    <<Hit31, Hit31b, Hit3>>,
    <<Hit3, Hit3b, Hit31>>,
    <<Word0, Word0, Hit3b>>,
    <<Hit31b, Hit3, Hit31>> }

\* the (start, pstop) pairs LoadSlot is called with on a buffer: start is a
\* position of the buffer, pstop the last position of the range (start - 1
\* when the range is empty)
FbRanges(evbuffer) ==
  { <<start, pstop>> \in (1..Len(evbuffer)) \X (0..Len(evbuffer)) :
      pstop >= start - 1 }

(***************************************************************************)
(* Decoder::THaEtClient (src/hana_decode/THaEtClient.cxx 39-318).          *)
(* THaEtClient.h and THaCodaData.h are not among the sources: MAXEVLEN,    *)
(* the capacity of evbuffer in words, and ET_CHUNK_SIZE, the number of     *)
(* events et_events_get may deliver at once, are set there; the model      *)
(* takes small values for both.  An ET event is its first data word        *)
(* (word0, the count of the words that follow) and its length in bytes as  *)
(* et_event_getlength reports it; the two are set by the producer and need *)
(* not agree.  The event rate statistics of codaRead (lines 234-256) only  *)
(* tune the timeout of the next et_events_get and are left out.            *)
(***************************************************************************)
MAXEVLEN == 4
ET_CHUNK_SIZE == 2
\* const size_t bpi = sizeof(int)
bpi == 4

\* the members codaRead and codaClose use, as the constructors set them
NewEtClient ==
  [ firstread |-> 1, notopened |-> 0, didclose |-> 0, nread |-> 0, nused |-> 0,
    evbuffer  |-> [id |-> 0, len |-> 0] ]

\* the ET system as the client sees it: opened (et_open succeeded, et_close
\* not yet), attached (et_station_attach succeeded, no detach yet), held (the
\* chunks obtained by et_events_get and not given back by et_events_put),
\* running (the process has neither exited nor crashed)
NewEtSystem == [opened |-> FALSE, attached |-> FALSE, held |-> 0, running |-> TRUE]

\* THaEtClient::init: et_open, et_station_create, et_station_attach
init(c, sys, res) ==
  CASE res = "noopen" ->
         [c |-> [c EXCEPT !.notopened = 1], sys |-> sys, status |-> "CODA_ERROR"]
    [] res = "noattach" ->
         [c |-> c, sys |-> [sys EXCEPT !.opened = TRUE], status |-> "CODA_ERROR"]
    [] OTHER ->
         [c |-> c, sys |-> [sys EXCEPT !.opened = TRUE, !.attached = TRUE],
          status |-> "CODA_OK"]

\* the largest value of Int_t (32 bits, two's complement)
kMaxInt == 2147483647

\* the length check with >= for >
TruncatedAtMax(ev, ovf) ==
  IF ev.word0 = kMaxInt THEN ovf ELSE ev.word0 + 1 >= MAXEVLEN

\* Int_t event_size = *pdata + 1; event_size > MAXEVLEN.  word0 is the
\* Int_t that *pdata yields.  For *pdata = 0x7FFFFFFF the sum overflows
\* Int_t, which is undefined; ovf is what the test yields then: FALSE where
\* the sum wraps to the most negative Int_t, TRUE where the compiler, free
\* to assume no overflow, tests *pdata > MAXEVLEN - 1 instead
Truncated(ev, ovf) ==
  IF ev.word0 = kMaxInt THEN ovf ELSE ev.word0 + 1 > MAXEVLEN

\* lencpy without the clamp to the capacity of evbuffer
LencpyUnclamped(nbytes) == nbytes

\* lencpy = (nbytes < bpi*MAXEVLEN) ? nbytes : bpi*MAXEVLEN
Lencpy(nbytes) == IF nbytes < bpi * MAXEVLEN THEN nbytes ELSE bpi * MAXEVLEN

\* the result of a codaRead call: members, ET system, the chunk evs points
\* to, the value returned ("exit": exit(1) was called, "crash": a wild
\* pointer was dereferenced), the ET calls made, and the event copied
EtResult(c, sys, chunk, status, calls, fetched, copied) ==
  [c |-> c, sys |-> sys, chunk |-> chunk, status |-> status, calls |-> calls,
   fetched |-> fetched, copied |-> copied]

NoEvent == [id |-> 0, word0 |-> 0, nbytes |-> 0]

\* the copy with the error of et_events_put ignored
DeliverPutIgnored(c, sys, chunk, ev, calls, fetched, put) ==
  LET c1 == [c EXCEPT !.evbuffer = [id |-> ev.id, len |-> Lencpy(ev.nbytes)],
                      !.nused = @ + 1]
  IN  IF ev.nbytes > bpi * MAXEVLEN
        THEN EtResult(c1, sys, chunk, "CODA_ERROR", calls, fetched, ev)
      ELSE IF c1.nused >= c1.nread
        THEN EtResult(c1, sys, chunk, "CODA_OK",
                      Append(calls, IF put = "ok" THEN "put" ELSE "put-failed"),
                      fetched, ev)
      ELSE EtResult(c1, sys, chunk, "CODA_OK", calls, fetched, ev)

\* lines 259-281: copy event evs[nused] to evbuffer and, when the chunk is
\* used up, give it back ("put"; "put-failed" when
\* et_events_put reports an error).  ev is the event evs[nused] designates
Deliver(c, sys, chunk, ev, calls, fetched, put) ==
  LET c1 == [c EXCEPT !.evbuffer = [id |-> ev.id, len |-> Lencpy(ev.nbytes)],
                      !.nused = @ + 1]
  IN  IF ev.nbytes > bpi * MAXEVLEN
        THEN EtResult(c1, sys, chunk, "CODA_ERROR", calls, fetched, ev)
      ELSE IF c1.nused >= c1.nread
        THEN IF put = "ok"
               THEN EtResult(c1, [sys EXCEPT !.held = IF @ > 0 THEN @ - 1 ELSE 0],
                             chunk, "CODA_OK", Append(calls, "put"), fetched, ev)
               ELSE EtResult(c1, [sys EXCEPT !.running = FALSE], chunk, "exit",
                             Append(calls, "put-failed"), fetched, ev)
      ELSE EtResult(c1, sys, chunk, "CODA_OK", calls, fetched, ev)

\* THaEtClient::codaRead.  in.init: the outcome of init(); in.get: the
\* outcome of et_events_get, an error or the chunk delivered; in.put: the
\* outcome of et_events_put; in.ovf: the outcome of the length check where
\* word0 + 1 overflows; in.evs: what the local array evs holds on a
\* call that does not fetch: it is not initialised then, and reading
\* evs[nused] finds either the pointer an earlier call left in that stack
\* slot ("stale") or some other value ("wild")
codaRead(c, sys, chunk, in) ==
  LET i0 == IF c.firstread = 1
              THEN init([c EXCEPT !.firstread = 0], sys, in.init)
              ELSE [c |-> c, sys |-> sys, status |-> "CODA_OK"]
      calls0 == IF c.firstread = 1 THEN <<"init">> ELSE <<>>
  IN  IF i0.status = "CODA_ERROR"
        THEN EtResult(i0.c, i0.sys, chunk, "CODA_ERROR", calls0, FALSE, NoEvent)
      ELSE IF i0.c.nused >= i0.c.nread
        THEN LET calls1 == Append(calls0,
                                  IF i0.sys.attached THEN "get" ELSE "get-unattached")
             IN  IF in.get.err \/ ~i0.sys.attached
                   THEN EtResult([i0.c EXCEPT !.nread = 0, !.nused = 0], i0.sys,
                                 chunk, "CODA_ERROR", calls1, FALSE, NoEvent)
                 ELSE LET c1 == [i0.c EXCEPT !.nread = Len(in.get.chunk), !.nused = 0]
                          s1 == [i0.sys EXCEPT !.held = @ + 1]
                      IN  IF \E j \in DOMAIN in.get.chunk :
                                   Truncated(in.get.chunk[j], in.ovf)
                            THEN EtResult(c1, s1, in.get.chunk, "CODA_ERROR",
                                          calls1, TRUE, NoEvent)
                          ELSE Deliver(c1, s1, in.get.chunk, in.get.chunk[1],
                                       calls1, TRUE, in.put)
      ELSE IF in.evs = "stale" /\ i0.c.nused + 1 \in DOMAIN chunk
        THEN Deliver(i0.c, i0.sys, chunk, chunk[i0.c.nused + 1], calls0, FALSE,
                     in.put)
      ELSE EtResult(i0.c, [i0.sys EXCEPT !.running = FALSE], chunk, "crash",
                    calls0, FALSE, NoEvent)

\* codaClose without `didclose = 1`
codaCloseUnmarked(c, sys, det, cls) ==
  IF c.didclose = 1 \/ c.firstread = 1
    THEN [c |-> c, sys |-> sys, status |-> "CODA_OK", calls |-> <<>>]
  ELSE IF c.notopened = 1
    THEN [c |-> c, sys |-> sys, status |-> "CODA_ERROR", calls |-> <<>>]
  ELSE IF det # "ok"
    THEN [c |-> c, sys |-> sys, status |-> "CODA_ERROR", calls |-> <<"detach">>]
  ELSE IF cls # "ok"
    THEN [c |-> c, sys |-> [sys EXCEPT !.attached = FALSE],
          status |-> "CODA_ERROR", calls |-> <<"detach", "close">>]
  ELSE [c |-> c, sys |-> [sys EXCEPT !.attached = FALSE, !.opened = FALSE],
        status |-> "CODA_OK", calls |-> <<"detach", "close">>]

\* THaEtClient::codaClose.  det, cls: the outcomes of et_station_detach and
\* et_close
codaClose(c, sys, det, cls) ==
  IF c.didclose = 1 \/ c.firstread = 1
    THEN [c |-> c, sys |-> sys, status |-> "CODA_OK", calls |-> <<>>]
  ELSE LET c1 == [c EXCEPT !.didclose = 1]
       IN  IF c1.notopened = 1
             THEN [c |-> c1, sys |-> sys, status |-> "CODA_ERROR", calls |-> <<>>]
           ELSE IF det # "ok"
             THEN [c |-> c1, sys |-> sys, status |-> "CODA_ERROR",
                   calls |-> <<"detach">>]
           ELSE IF cls # "ok"
             THEN [c |-> c1, sys |-> [sys EXCEPT !.attached = FALSE],
                   status |-> "CODA_ERROR", calls |-> <<"detach", "close">>]
           ELSE [c |-> c1,
                 sys |-> [sys EXCEPT !.attached = FALSE, !.opened = FALSE],
                 status |-> "CODA_OK", calls |-> <<"detach", "close">>]

\* THaEtClient::isOpen
isOpen(c) == c.notopened = 1 /\ c.didclose = 0

(***************************************************************************)
(* The ET events of the model: id, word0, nbytes.                          *)
(***************************************************************************)
\* a short event
EvShort == [id |-> 1, word0 |-> 1, nbytes |-> 8]
\* word0 + 1 = MAXEVLEN, byte length = the capacity of evbuffer
EvAtMax == [id |-> 2, word0 |-> MAXEVLEN - 1, nbytes |-> bpi * MAXEVLEN]
\* word0 + 1 = MAXEVLEN + 1, byte length to match
EvOver == [id |-> 3, word0 |-> MAXEVLEN, nbytes |-> bpi * (MAXEVLEN + 1)]
\* word0 + 1 = MAXEVLEN + 1 in an ET event whose byte length fits evbuffer
EvDeclaredOver == [id |-> 4, word0 |-> MAXEVLEN, nbytes |-> bpi * MAXEVLEN]
\* word0 + 1 within MAXEVLEN in an ET event longer than evbuffer
EvBytesOver == [id |-> 5, word0 |-> 1, nbytes |-> bpi * MAXEVLEN + 1]

EtEvents == {EvShort, EvAtMax, EvOver, EvDeclaredOver, EvBytesOver}

\* the chunks et_events_get delivers: 1..ET_CHUNK_SIZE events
EtChunks == UNION { SeqsOfLen(EtEvents, n) : n \in 1..ET_CHUNK_SIZE }

(***************************************************************************)
(* The calls made on an instance.                                          *)
(***************************************************************************)
\* no LoadSlot call completed or in progress
NoCall ==
  [inst |-> 0, first |-> FALSE, n |-> 0, evbuffer |-> <<>>, start |-> 0,
   pstop |-> 0, hits |-> <<>>, at |-> <<>>, reads |-> {}, ret |-> 0]
NoRun ==
  [pc |-> "idle", fl |-> FALSE, evbuffer |-> <<>>, start |-> 0, pstop |-> 0,
   hits |-> <<>>, ret |-> 0]

\* the Fastbus modules of the first setup, never loaded
FbStart(setup) ==
  /\ fb = [i \in Insts |-> NewFastbus(setup[i][1], setup[i][2], setup[i][3])]
  /\ fb0 = fb
  /\ first_load = TRUE
  /\ nloads = [i \in Insts |-> 0]
  /\ fbcall = NoCall
  /\ fbrun = [i \in Insts |-> NoRun]

FbIdle == FbStart(<< <<1, 31, CfgPlain>>, <<2, 3, CfgHeader>> >>)

\* the ET client as constructed, no call made
NoEtCall ==
  [op |-> "new", status |-> "CODA_OK", calls |-> <<>>, fetched |-> FALSE,
   copied |-> NoEvent]

EtIdle ==
  /\ et = NewEtClient
  /\ etsys = NewEtSystem
  /\ etchunk = <<>>
  /\ etcall = NoEtCall

\* no database file is open, no database call was made, Here was not called
NoDbCall == [op |-> "none"]
NoHere == [pc |-> "idle"]
HereThreads == {1, 2}

DbIdle ==
  /\ dbfile = <<>>
  /\ dbcall = NoDbCall
  /\ buffers = <<>>
  /\ hthread = [t \in HereThreads |-> NoHere]

\* no occurrence met: the counter started from 0 (from) and none since (n)
NoWarnings == [from |-> <<0, 0>>, n |-> 0]

Init ==
  /\ \E d \in DebugLevels : pm = [i \in Insts |-> NewModule(OwnSlot, d)]
  /\ codabuffer = [i \in Insts |-> <<>>]
  /\ entry = [i \in Insts |-> FALSE]
  /\ lastop = [i \in Insts |-> "new"]
  /\ ret = [i \in Insts |-> [code |-> 0, thrown |-> FALSE, printed |-> 0,
                             error |-> FALSE, block |-> <<>>]]
  /\ base = [i \in Insts |-> "new"]
  /\ ncalls = [i \in Insts |-> 0]
  /\ nwarn = [i \in Insts |-> NoWarnings]
  /\ FbIdle
  /\ EtIdle
  /\ DbIdle

\* a SplitBuffer call on instance i, made while the occurrences i has met
\* stay within limit
SplitCall(i, buf, limit) ==
  LET r == SplitBuffer(pm[i], buf)
  IN  /\ nwarn[i].n + r.seen <= limit
      /\ nwarn' = [nwarn EXCEPT ![i].n = @ + r.seen]
      /\ pm' = [pm EXCEPT ![i] = r.m]
      /\ codabuffer' = [codabuffer EXCEPT ![i] = buf]
      /\ entry' = [entry EXCEPT ![i] = pm[i].fMultiBlockMode]
      /\ lastop' = [lastop EXCEPT ![i] = "SplitBuffer"]
      /\ ret' = [ret EXCEPT ![i] = [code |-> r.code, thrown |-> r.thrown,
                                    printed |-> r.printed, error |-> r.error,
                                    block |-> <<>>]]
      /\ base' = [base EXCEPT ![i] = "SplitBuffer"]
      /\ ncalls' = [ncalls EXCEPT ![i] = 0]
      /\ UNCHANGED <<fbvars, etvars, dbvars>>

DoSplitBuffer(i, buf) == SplitCall(i, buf, MaxWarnings)

DoReStart(i) ==
  /\ pm' = [pm EXCEPT ![i] = ReStart(pm[i])]
  /\ lastop' = [lastop EXCEPT ![i] = "ReStart"]
  /\ ret' = [ret EXCEPT ![i] = [code |-> 0, thrown |-> FALSE, printed |-> 0,
                                error |-> FALSE, block |-> <<>>]]
  /\ base' = [base EXCEPT ![i] = "ReStart"]
  /\ ncalls' = [ncalls EXCEPT ![i] = 0]
  /\ UNCHANGED <<codabuffer, entry, nwarn, fbvars, etvars, dbvars>>

DoGetNextBlock(i) ==
  LET r == GetNextBlock(pm[i])
  IN  /\ pm[i].index_buffer < MaxIndex
      /\ ncalls[i] < MaxIndex
      /\ pm' = [pm EXCEPT ![i] = r.m]
      /\ lastop' = [lastop EXCEPT ![i] = "GetNextBlock"]
      /\ ret' = [ret EXCEPT ![i] = [code |-> 0, thrown |-> FALSE, printed |-> 0,
                                    error |-> FALSE, block |-> r.block]]
      /\ ncalls' = [ncalls EXCEPT ![i] = @ + 1]
      /\ UNCHANGED <<codabuffer, entry, base, nwarn, fbvars, etvars, dbvars>>

DoPrintBlocks(i) ==
  LET r == PrintBlocks(pm[i])
  IN  /\ pm' = [pm EXCEPT ![i] = r.m]
      /\ lastop' = [lastop EXCEPT ![i] = "PrintBlocks"]
      /\ ret' = [ret EXCEPT ![i] = [code |-> 0, thrown |-> r.thrown, printed |-> 0,
                                    error |-> FALSE, block |-> <<>>]]
      /\ base' = [base EXCEPT ![i] = "PrintBlocks"]
      /\ ncalls' = [ncalls EXCEPT ![i] = 0]
      /\ UNCHANGED <<codabuffer, entry, nwarn, fbvars, etvars, dbvars>>

\* one module instance driven through every buffer of the family
Next ==
  \/ \E buf \in Buffers : DoSplitBuffer(1, buf)
  \/ DoReStart(1)
  \/ DoGetNextBlock(1)
  \/ DoPrintBlocks(1)

Spec == Init /\ [][Next]_vars

\* two instances of the same slot, each with its own history of buffers
TwinBuffers ==
  { Block(OwnSlot, OwnSlot, 1, << <<D4>> >>),
    Block(OwnSlot, OwnSlot, 2, << <<D4>>, <<D4>> >>),
    Block(OwnSlot, OwnSlot, 2, << <<D4>> >>) \o <<D4>>,
    <<DuOwn>> \o Block(OwnSlot, OwnSlot, 2, << <<D4>>, <<D4>> >>) }

NextTwin == \E i \in Insts : \E buf \in TwinBuffers : DoSplitBuffer(i, buf)

SpecTwin == Init /\ [][NextTwin]_vars

(***************************************************************************)
(* The LoadSlot calls made on the Fastbus modules.                         *)
(***************************************************************************)
\* the PipeliningModule instances as constructed, no call made
PmIdle ==
  /\ pm = [i \in Insts |-> NewModule(OwnSlot, 0)]
  /\ codabuffer = [i \in Insts |-> <<>>]
  /\ entry = [i \in Insts |-> FALSE]
  /\ lastop = [i \in Insts |-> "new"]
  /\ ret = [i \in Insts |-> [code |-> 0, thrown |-> FALSE, printed |-> 0,
                             error |-> FALSE, block |-> <<>>]]
  /\ base = [i \in Insts |-> "new"]
  /\ ncalls = [i \in Insts |-> 0]
  /\ nwarn = [i \in Insts |-> NoWarnings]

InitFb == PmIdle /\ EtIdle /\ DbIdle /\ \E setup \in FbSetups : FbStart(setup)

\* one whole LoadSlot call on instance i
DoLoadSlot(i, evbuffer, start, pstop) ==
  \E r \in {LoadSlot(fb[i], first_load, evbuffer, start, pstop)} :
    LET n == IF nloads[i] = 0 THEN 1 ELSE 2
    IN  /\ fb' = [fb EXCEPT ![i] = r.m]
        /\ first_load' = FALSE
        /\ nloads' = [nloads EXCEPT ![i] = n]
        /\ fbcall' = [inst |-> i, first |-> first_load, n |-> n,
                      evbuffer |-> evbuffer, start |-> start, pstop |-> pstop,
                      hits |-> r.hits, at |-> r.at, reads |-> r.reads,
                      ret |-> r.ret]
        /\ UNCHANGED <<fb0, fbrun, pmvars, etvars, dbvars>>

\* the buffers instance 2 is loaded from
FbOtherBuffers == { <<Hit3, Hit3b, Hit31>>, <<Word0, Hit31>> }

NextFb ==
  \/ \E evbuffer \in FbBuffers : \E rg \in FbRanges(evbuffer) :
       DoLoadSlot(1, evbuffer, rg[1], rg[2])
  \/ \E evbuffer \in FbOtherBuffers : \E rg \in FbRanges(evbuffer) :
       DoLoadSlot(2, evbuffer, rg[1], rg[2])

SpecFb == InitFb /\ [][NextFb]_vars

(***************************************************************************)
(* One LoadSlot call on each of the two instances, run concurrently on the *)
(* same event buffer.  The calls share the static first_load, read at line *)
(* 432 and written at line 441 with no synchronisation: a call is the read *)
(* of the static followed by the rest of the function.                     *)
(***************************************************************************)
LoadSlotBegin(i, evbuffer, start, pstop) ==
  /\ fbrun[i].pc = "idle"
  /\ \A j \in Insts : fbrun[j].pc # "idle" => fbrun[j].evbuffer = evbuffer
  /\ fbrun' = [fbrun EXCEPT ![i] = [pc |-> "entered", fl |-> first_load,
                                    evbuffer |-> evbuffer, start |-> start,
                                    pstop |-> pstop, hits |-> <<>>, ret |-> 0]]
  /\ UNCHANGED <<fb, fb0, first_load, nloads, fbcall, pmvars, etvars, dbvars>>

LoadSlotFinish(i) ==
  /\ fbrun[i].pc = "entered"
  /\ \E r \in {LoadSlot(fb[i], fbrun[i].fl, fbrun[i].evbuffer, fbrun[i].start,
                         fbrun[i].pstop)} :
       /\ fb' = [fb EXCEPT ![i] = r.m]
       /\ fbrun' = [fbrun EXCEPT ![i].pc = "done", ![i].hits = r.hits,
                                 ![i].ret = r.ret]
  /\ first_load' = IF fbrun[i].fl THEN FALSE ELSE first_load
  /\ nloads' = [nloads EXCEPT ![i] = 1]
  /\ UNCHANGED <<fb0, fbcall, pmvars, etvars, dbvars>>

NextFbPar ==
  \/ \E i \in Insts : \E evbuffer \in FbBuffers : \E rg \in FbRanges(evbuffer) :
       LoadSlotBegin(i, evbuffer, rg[1], rg[2])
  \/ \E i \in Insts : LoadSlotFinish(i)

SpecFbPar == InitFb /\ [][NextFbPar]_vars

(***************************************************************************)
(* The calls made on the ET client.                                        *)
(***************************************************************************)
InitEt == PmIdle /\ FbIdle /\ EtIdle /\ DbIdle

\* the outcomes of et_events_get: an error (err < ET_OK) or a chunk
EtGetError == [err |-> TRUE, chunk |-> <<>>]
EtGets == {EtGetError} \cup { [err |-> FALSE, chunk |-> ch] : ch \in EtChunks }

\* the outcomes of the ET library calls a codaRead call on (c) can meet
EtInputs(c) ==
  [ init : IF c.firstread = 1 THEN {"ok", "noopen", "noattach"} ELSE {"ok"},
    get  : IF c.nused >= c.nread THEN EtGets ELSE {EtGetError},
    put  : {"ok", "error"},
    ovf  : BOOLEAN,
    evs  : IF c.nused >= c.nread THEN {"stale"} ELSE {"stale", "wild"} ]

DoCodaRead(in) ==
  /\ etsys.running
  /\ \E r \in {codaRead(et, etsys, etchunk, in)} :
       /\ r.sys.held <= MaxHeld
       /\ et' = r.c
       /\ etsys' = r.sys
       /\ etchunk' = r.chunk
       /\ etcall' = [op |-> "codaRead", status |-> r.status, calls |-> r.calls,
                     fetched |-> r.fetched, copied |-> r.copied]
  /\ UNCHANGED <<pmvars, fbvars, dbvars>>

DoCodaClose(det, cls) ==
  /\ etsys.running
  /\ \E r \in {codaClose(et, etsys, det, cls)} :
       /\ et' = r.c
       /\ etsys' = r.sys
       /\ etcall' = [op |-> "codaClose", status |-> r.status, calls |-> r.calls,
                     fetched |-> FALSE, copied |-> NoEvent]
  /\ UNCHANGED <<etchunk, pmvars, fbvars, dbvars>>

NextEt ==
  \/ \E in \in EtInputs(et) : DoCodaRead(in)
  \/ \E det, cls \in {"ok", "error"} : DoCodaClose(det, cls)

SpecEt == InitEt /\ [][NextEt]_vars

(***************************************************************************)
(* The two decoders that meet a declared word count: a run either splits   *)
(* buffers with PipeliningModule instance 1 or loads event buffers into    *)
(* Fastbus instance 2, which is of a family with a header word.            *)
(***************************************************************************)
\* cfg's header word of a module in slot 'slot' declaring n words
FbHeader(cfg, slot, n) == OrW(ShiftL(slot, fSlotShift), <<0, n>>)

\* event buffers whose header declares the number of words the scan sees
FbCountedBuffers ==
  { <<FbHeader(CfgHeader, 3, 3), Hit3, Hit3b, Hit31>>,
    <<Word0, FbHeader(CfgHeader, 3, 1), Hit31>> }

\* the buffers split in these runs
WcBuffers == TwinBuffers \cup ForeignBlocks \cup OldFirmwareBlocks \cup MalformedBuffers

PmUntouched == \A i \in Insts : lastop[i] = "new"
FbUntouched == fbcall = NoCall

NextWc ==
  \/ FbUntouched /\ \E buf \in WcBuffers : DoSplitBuffer(1, buf)
  \/ /\ PmUntouched
     /\ \E evbuffer \in FbOtherBuffers \cup FbCountedBuffers :
          \E rg \in FbRanges(evbuffer) : DoLoadSlot(2, evbuffer, rg[1], rg[2])

SpecWc == Init /\ [][NextWc]_vars

(***************************************************************************)
(* Runs that follow the inconsistent-slot warning counter: two instances   *)
(* of the same slot split blocks written by older firmware (event headers  *)
(* with slot 0), in which every data word is an inconsistent-slot          *)
(* occurrence.  Instance 1 is either new or has already met 2^32 - 3       *)
(* occurrences, all in buffers like WarnOnce.                              *)
(***************************************************************************)
\* buffers with one and with two occurrences
WarnOnce == Block(OwnSlot, 0, 2, << <<D4>>, <<>> >>)
WarnTwice == Block(OwnSlot, 0, 2, << <<D4>>, <<D4>> >>)
WarnBuffers == {WarnOnce, WarnTwice}

\* fNWarnings after 2^32 - 3 occurrences: 0xFFFFFFFD
NearWrap == <<65535, 65533>>

\* the result of splitting WarnOnce by a module that has split it before
AgedSplit == SplitBuffer(SplitBuffer(NewModule(OwnSlot, 0), WarnOnce).m, WarnOnce)

InitWarn ==
  /\ \E aged \in BOOLEAN :
       /\ pm = [i \in Insts |->
                  IF aged /\ i = 1
                    THEN [AgedSplit.m EXCEPT !.fNWarnings = NearWrap]
                    ELSE NewModule(OwnSlot, 0)]
       /\ codabuffer = [i \in Insts |-> IF aged /\ i = 1 THEN WarnOnce ELSE <<>>]
       /\ entry = [i \in Insts |-> aged /\ i = 1]
       /\ lastop = [i \in Insts |-> IF aged /\ i = 1 THEN "SplitBuffer" ELSE "new"]
       /\ ret = [i \in Insts |->
                   [code |-> IF aged /\ i = 1 THEN AgedSplit.code ELSE 0,
                    thrown |-> FALSE, printed |-> 0,
                    error |-> aged /\ i = 1 /\ AgedSplit.error, block |-> <<>>]]
       /\ base = [i \in Insts |-> IF aged /\ i = 1 THEN "SplitBuffer" ELSE "new"]
       /\ nwarn = [i \in Insts |->
                     [from |-> IF aged /\ i = 1 THEN NearWrap ELSE <<0, 0>>, n |-> 0]]
  /\ ncalls = [i \in Insts |-> 0]
  /\ FbIdle
  /\ EtIdle
  /\ DbIdle

NextWarn ==
  \/ \E buf \in WarnBuffers : SplitCall(1, buf, MaxSeen)
  \/ SplitCall(2, WarnOnce, MaxSeenOther)

SpecWarn == InitWarn /\ [][NextWarn]_vars

(***************************************************************************)
(* The database functions (src/Database/Database.cxx).                     *)
(*                                                                         *)
(* A database file is the sequence of its physical lines.  A line is an    *)
(* assignment "key = value", a date tag "[ yyyy-mm-dd hh:mi:ss ]", a       *)
(* section tag "[ name ]" that is not a date, or a blank line.  A key is   *)
(* the sequence of its characters, a time stamp is a number (larger is     *)
(* later), a value is a number and a text is the sequence of what the      *)
(* text holds: the value, then whatever ReadDBline appended to it.  A file *)
(* position is the number of lines before it.  Comments, '\' continuation  *)
(* marks, text variables, a null FILE pointer and I/O errors (errno) are   *)
(* left out.                                                               *)
(***************************************************************************)
\* files have up to MaxLines lines
MaxLines == 3
\* time stamps of the date tags: 1..MaxDate; requested dates: 1..MaxDate - 1
MaxDate == 3

\* TDatime(950101, 0): 1995-01-01 00:00:00, earlier than every date tag
D1995 == 0
TagDates == 1..MaxDate
RequestDates == 1..(MaxDate - 1)

KeyLine(key, val) == [kind |-> "key", key |-> key, val |-> val]
DateTag(d) == [kind |-> "date", date |-> d]
SectionTag == [kind |-> "tag"]
BlankLine == [kind |-> "blank"]

\* the keys "nw" and "nwires"
nw == <<"n", "w">>
nwires == <<"n", "w", "i", "r", "e", "s">>
DbKeys == {nw, nwires}

\* what line i of a file can be; an assignment's value is its line number
LinesAt(i) ==
  {KeyLine(k, i) : k \in DbKeys} \cup {DateTag(d) : d \in TagDates}
    \cup {SectionTag, BlankLine}

RECURSIVE FilesOfLen(_)
FilesOfLen(n) ==
  IF n = 0 THEN {<<>>}
  ELSE {Append(f, x) : f \in FilesOfLen(n - 1), x \in LinesAt(n)}

DbFiles == UNION {FilesOfLen(n) : n \in 0..MaxLines}

\* ReadDBline from position p: the logical line built so far is 'line';
\* maybe_continued is set once its first line was an assignment.  The
\* result is the items of the logical line, the position the file is left
\* at, and eof when ReadDBline returns EOF.
RECURSIVE ReadDBlineLoop(_, _, _, _)
ReadDBlineLoop(file, p, line, maybe_continued) ==
  IF p >= Len(file)
    THEN [eof |-> ~maybe_continued, line |-> line, pos |-> p]
    ELSE LET linbuf == file[p + 1] IN
      IF linbuf.kind = "blank"
        THEN IF line = <<>>
               THEN ReadDBlineLoop(file, p + 1, line, maybe_continued)
               ELSE [eof |-> FALSE, line |-> line, pos |-> p + 1]
      ELSE IF linbuf.kind = "key" /\ maybe_continued
        THEN [eof |-> FALSE, line |-> line, pos |-> p]
      ELSE IF linbuf.kind = "key" \/ maybe_continued
        THEN ReadDBlineLoop(file, p + 1, Append(line, linbuf), TRUE)
      ELSE [eof |-> FALSE, line |-> <<linbuf>>, pos |-> p + 1]

ReadDBline(file, p) == ReadDBlineLoop(file, p, <<>>, FALSE)

\* strncmp(ln, key, n) = 0 for the n characters ln of the line's key
StrncmpEqual(ln, key) ==
  /\ Len(ln) <= Len(key)
  /\ SubSeq(key, 1, Len(ln)) = ln

\* IsDBkey of a logical line: 0 without '=', -1 when the left-hand side
\* does not match, +1 and the text right of '=' when it does
IsDBkey(line, key) ==
  IF line[1].kind # "key" THEN [status |-> 0]
  ELSE IF ~StrncmpEqual(line[1].key, key) THEN [status |-> -1]
  ELSE [status |-> 1, text |-> <<line[1].val>> \o Tail(line)]

\* IsDBdate of a logical line: what stands between the first '[' and the
\* ']' after it must be a time stamp
IsDBdate(line) ==
  LET br == {i \in 1..Len(line) : line[i].kind \in {"date", "tag"}} IN
    IF br = {} THEN [ok |-> FALSE]
    ELSE LET i == CHOOSE j \in br : \A k \in br : j <= k IN
      IF line[i].kind = "date" THEN [ok |-> TRUE, date |-> line[i].date]
      ELSE [ok |-> FALSE]

\* the loop of LoadDBvalue over the logical lines from st.pos on
RECURSIVE LoadDBvalueLoop(_, _, _, _)
LoadDBvalueLoop(file, date, key, st) ==
  LET rd == ReadDBline(file, st.pos) IN
    IF rd.eof THEN st
    ELSE LET status == IF st.do_ignore THEN 0 ELSE IsDBkey(rd.line, key).status
             at == [st EXCEPT !.pos = rd.pos]
         IN
      IF status # 0
        THEN IF status > 0
               THEN LoadDBvalueLoop(file, date, key,
                      [at EXCEPT !.found = TRUE, !.prevdate = st.keydate,
                                 !.text = IsDBkey(rd.line, key).text])
               ELSE LoadDBvalueLoop(file, date, key, at)
      ELSE IF IsDBdate(rd.line).ok
        THEN LET keydate == IsDBdate(rd.line).date IN
          LoadDBvalueLoop(file, date, key,
            [at EXCEPT !.keydate = keydate,
                       !.do_ignore = (keydate > date \/ keydate < st.prevdate)])
      ELSE LoadDBvalueLoop(file, date, key, at)

\* LoadDBvalue(file, date, key, text): the return value, the caller's text
\* and the file position afterwards
LoadDBvalue(file, date, key, text) ==
  LET st == LoadDBvalueLoop(file, date, key,
              [pos |-> 0, text |-> text, found |-> FALSE, do_ignore |-> FALSE,
               keydate |-> D1995, prevdate |-> D1995])
  IN [ret |-> IF st.found THEN 0 ELSE 1, out |-> st.text, pos |-> st.pos]

\* atof and atoi of a text: the number it starts with
Atof(text) == text[1]
Atoi(text) == text[1]

\* the Double_t, Int_t and TString overloads
Convert(type, file, date, key, value) ==
  LET r == LoadDBvalue(file, date, key, <<>>) IN
    [ret |-> r.ret, pos |-> r.pos,
     out |-> IF r.ret # 0 THEN value
             ELSE IF type = "Double_t" THEN Atof(r.out)
             ELSE IF type = "Int_t" THEN Atoi(r.out)
             ELSE r.out]

ValueTypes == {"string", "Double_t", "Int_t", "TString"}
\* what the caller's output variable holds before the call
Before(type) == IF type \in {"string", "TString"} THEN <<-1>> ELSE -1

IsTag(buf) == buf.kind \in {"date", "tag"}

\* the loop of SeekDBdate over the physical lines from p on
RECURSIVE SeekLoop(_, _, _, _, _)
SeekLoop(file, p, date, end_on_tag, st) ==
  IF p >= Len(file) THEN st
  ELSE LET buf == file[p + 1] IN
    IF buf.kind = "blank" THEN SeekLoop(file, p + 1, date, end_on_tag, st)
    ELSE IF buf.kind = "date" /\ buf.date <= date /\ buf.date >= st.prevdate
      THEN SeekLoop(file, p + 1, date, end_on_tag,
             [prevdate |-> buf.date, foundpos |-> p + 1, found |-> TRUE])
    ELSE IF end_on_tag /\ IsTag(buf) THEN st
    ELSE SeekLoop(file, p + 1, date, end_on_tag, st)

\* SeekDBdate on a file at position pos: the return value and the position
\* the file is left at
SeekDBdate(file, pos, date, end_on_tag) ==
  LET st == SeekLoop(file, pos, date, end_on_tag,
              [prevdate |-> D1995, foundpos |-> -1, found |-> FALSE])
  IN [ret |-> IF st.found THEN 1 ELSE 0,
      pos |-> IF st.found THEN st.foundpos ELSE pos]

\* one database file is open and no call was made on it
InitDb ==
  /\ PmIdle /\ FbIdle /\ EtIdle
  /\ dbfile \in DbFiles
  /\ dbcall = NoDbCall
  /\ buffers = <<>>
  /\ hthread = [t \in HereThreads |-> NoHere]

DoLoadDBvalue(date, key, type) ==
  /\ dbcall = NoDbCall
  /\ \E r \in {IF type = "string"
                 THEN LoadDBvalue(dbfile, date, key, Before(type))
                 ELSE Convert(type, dbfile, date, key, Before(type))} :
       dbcall' = [op |-> "LoadDBvalue", type |-> type, date |-> date,
                  key |-> key, ret |-> r.ret, out |-> r.out, pos |-> r.pos]
  /\ UNCHANGED <<dbfile, buffers, hthread, pmvars, fbvars, etvars>>

\* SeekDBdate after the caller has read the first 'start' lines
DoSeekDBdate(start, date, end_on_tag) ==
  /\ dbcall = NoDbCall
  /\ start \in 0..Len(dbfile)
  /\ \E r \in {SeekDBdate(dbfile, start, date, end_on_tag)} :
       dbcall' = [op |-> "SeekDBdate", start |-> start, date |-> date,
                  end_on_tag |-> end_on_tag, ret |-> r.ret, pos |-> r.pos]
  /\ UNCHANGED <<dbfile, buffers, hthread, pmvars, fbvars, etvars>>

NextDb ==
  \/ \E date \in RequestDates, key \in DbKeys, type \in ValueTypes :
       DoLoadDBvalue(date, key, type)
  \/ \E start \in 0..MaxLines, date \in RequestDates, end_on_tag \in BOOLEAN :
       DoSeekDBdate(start, date, end_on_tag)

SpecDb == InitDb /\ [][NextDb]_vars

(***************************************************************************)
(* LoadDatabase (lines 695-950) for requests of single Int_t values.  A    *)
(* request item is its name, its optional flag, its search level and the   *)
(* variable item->var points to; the copy made for a retry points to the   *)
(* same variable.  'tried' records, per variable, the keys handed to       *)
(* LoadDBvalue.  The error texts, and with them the statics loaddb_depth   *)
(* and loaddb_prefix, are left out.                                        *)
(***************************************************************************)
\* request arrays have up to MaxItems items
MaxItems == 2
\* the global search level is one of -MaxClimb..1
MaxClimb == 2

\* the prefixes "", "L.", "L.vdc." and "L.vdc.u1."
PrefixAt ==
  << <<>>, <<"L", ".">>, <<"L", ".", "v", "d", "c", ".">>,
     <<"L", ".", "v", "d", "c", ".", "u", "1", ".">> >>
LoadPrefixes == {PrefixAt[l] : l \in DOMAIN PrefixAt}

\* the key "off", which no file defines
off == <<"o", "f", "f">>

\* files that define nw at some levels of the name tree: line l is
\* "<prefix l>nw = l" or blank
LoadFiles ==
  {[l \in DOMAIN PrefixAt |->
      IF l \in S THEN KeyLine(PrefixAt[l] \o nw, l) ELSE BlankLine]
     : S \in SUBSET DOMAIN PrefixAt}

SearchValues == (0 - MaxClimb)..1

\* the request items: nw, required or optional, with or without a search
\* level of its own, and the optional off
DbItems ==
  {[name |-> nw, optional |-> o, search |-> s] :
     o \in BOOLEAN, s \in {0, -1}}
    \cup {[name |-> off, optional |-> TRUE, search |-> 0]}

\* the request arrays: item i stores into variable i
DbRequests ==
  UNION {{[i \in 1..n |->
             [name |-> c[i].name, optional |-> c[i].optional,
              search |-> c[i].search, var |-> i]] : c \in [1..n -> DbItems]}
           : n \in 1..MaxItems}

\* the date of the LoadDatabase calls
LoadDate == MaxDate

\* a prefix cut after the dot before its last level
ChopPrefixToTop(s) == [s |-> <<>>, ndot |-> 0]

\* ChopPrefix: the prefix without its trailing level and the number of dots
\* left, or the empty prefix and 0
ChopPrefix(s) ==
  LET dots == {j \in 1..(Len(s) - 1) : s[j] = "."} IN
    IF Len(s) >= 2 /\ dots # {}
      THEN LET pos == CHOOSE j \in dots : \A k \in dots : k <= j
               cut == SubSeq(s, 1, pos)
           IN [s |-> cut,
               ndot |-> Cardinality({j \in 1..Len(cut) : cut[j] = "."})]
      ELSE [s |-> <<>>, ndot |-> 0]

\* the item loop of LoadDatabase from item k on; st is the return value so
\* far, the caller's variables and the keys tried.  ItemLoaded is the part
\* of the loop body after LoadDBvalue returned r for item k (at: the key is
\* recorded as tried), ItemRetried the part after the recursive call
\* returned sub.
RECURSIVE LoadItems(_, _, _, _, _, _, _)
RECURSIVE ItemLoaded(_, _, _, _, _, _, _, _)
RECURSIVE ItemRetried(_, _, _, _, _, _, _)
LoadItems(file, date, req, k, prefix, search, st) ==
  IF k > Len(req) THEN st
  ELSE ItemLoaded(file, date, req, k, prefix, search,
         [st EXCEPT !.tried[req[k].var] = Append(@, prefix \o req[k].name)],
         Convert("Int_t", file, date, prefix \o req[k].name,
                 st.vars[req[k].var]))

ItemLoaded(file, date, req, k, prefix, search, at, r) ==
  LET item == req[k]
      newsearch == IF item.search # 0 THEN item.search ELSE search
  IN
    IF r.ret = 0
      THEN LoadItems(file, date, req, k + 1, prefix, search,
             [at EXCEPT !.ret = 0, !.vars[item.var] = r.out])
    ELSE IF /\ newsearch # 0
            /\ prefix # <<>>
            /\ (newsearch < 0 \/ ChopPrefix(prefix).ndot + 1 >= newsearch)
      THEN ItemRetried(file, date, req, k, prefix, search,
             LoadItems(file, date, <<[item EXCEPT !.search = 0]>>, 1,
               ChopPrefix(prefix).s,
               IF newsearch < 0 THEN newsearch + 1 ELSE newsearch, at))
    ELSE IF item.optional
      THEN LoadItems(file, date, req, k + 1, prefix, search,
             [at EXCEPT !.ret = 0])
    ELSE [at EXCEPT !.ret = 1 + (k - 1)]

ItemRetried(file, date, req, k, prefix, search, sub) ==
  IF sub.ret # 0 THEN sub
  ELSE LoadItems(file, date, req, k + 1, prefix, search, sub)

\* LoadDatabase(f, date, req, prefix, search, here) with the variables of
\* the request unset (-1) before the call
LoadDatabase(file, date, req, prefix, search) ==
  LoadItems(file, date, req, 1, prefix, search,
    [ret |-> 0, vars |-> [i \in 1..Len(req) |-> -1],
     tried |-> [i \in 1..Len(req) |-> <<>>]])

InitLoad ==
  /\ PmIdle /\ FbIdle /\ EtIdle
  /\ dbfile \in LoadFiles
  /\ dbcall = NoDbCall
  /\ buffers = <<>>
  /\ hthread = [t \in HereThreads |-> NoHere]

DoLoadDatabase(req, prefix, search) ==
  /\ dbcall = NoDbCall
  /\ \E r \in {LoadDatabase(dbfile, LoadDate, req, prefix, search)} :
       dbcall' = [op |-> "LoadDatabase", req |-> req, prefix |-> prefix,
                  search |-> search, ret |-> r.ret, vars |-> r.vars,
                  tried |-> r.tried]
  /\ UNCHANGED <<dbfile, buffers, hthread, pmvars, fbvars, etvars>>

NextLoad ==
  \E req \in DbRequests, prefix \in LoadPrefixes, search \in SearchValues :
    DoLoadDatabase(req, prefix, search)

SpecLoad == InitLoad /\ [][NextLoad]_vars

(***************************************************************************)
(* Here (lines 39-77), called by the threads of HereThreads.  A string is  *)
(* the sequence of its pieces; "::", "." and the brackets (" and ") are    *)
(* pieces of their own.  The text is built in the local txt; under the     *)
(* lock guard it is assigned to the entry of the calling thread in the     *)
(* static map 'buffers', and the pointer returned points into that entry,  *)
(* so what the caller reads through it is the entry's current content.     *)
(***************************************************************************)
HereMethods == {<<"Class", "::", "method">>, <<"method">>}
HerePrefixes == {<<>>, <<"L">>, <<"L", ".">>}

\* every thread using the entry of thread 1
SelfIdOfFirst(t) == 1

\* TThread::SelfId() of thread t
SelfId(t) == t

\* the text Here builds in txt
HereText(method, prefix) ==
  IF prefix = <<>> THEN method
  ELSE
    LET chopped == IF prefix[Len(prefix)] = "."
                     THEN SubSeq(prefix, 1, Len(prefix) - 1) ELSE prefix
        full_prefix == <<"(\"">> \o chopped \o <<"\")">>
        scope == {j \in 1..Len(method) : method[j] = "::"}
    IN IF scope # {}
         THEN LET pos == CHOOSE j \in scope : \A k \in scope : j <= k IN
           SubSeq(method, 1, pos - 1) \o full_prefix
             \o SubSeq(method, pos, Len(method))
         ELSE full_prefix \o <<"::">> \o method

\* lines 50-70: thread t enters Here and builds txt
HereFormat(t, method, prefix) ==
  /\ hthread[t].pc \in {"idle", "returned"}
  /\ hthread' = [hthread EXCEPT ![t] =
       [pc |-> "built", method |-> method, prefix |-> prefix,
        txt |-> HereText(method, prefix),
        last |-> IF hthread[t].pc = "idle" THEN <<>> ELSE hthread[t].last]]
  /\ UNCHANGED <<buffers, dbfile, dbcall, pmvars, fbvars, etvars>>

\* line 72: the lock guard takes gHereMutex when no other thread holds it
HereLock(t) ==
  /\ hthread[t].pc = "built"
  /\ \A u \in HereThreads : hthread[u].pc # "locked"
  /\ hthread' = [hthread EXCEPT ![t].pc = "locked"]
  /\ UNCHANGED <<buffers, dbfile, dbcall, pmvars, fbvars, etvars>>

\* lines 74-77: txt is assigned to the thread's entry of buffers, the guard
\* releases the mutex and the pointer into the entry is returned
HereStore(t) ==
  /\ hthread[t].pc = "locked"
  /\ buffers' = [id \in DOMAIN buffers \cup {SelfId(t)} |->
                   IF id = SelfId(t) THEN hthread[t].txt ELSE buffers[id]]
  /\ hthread' = [hthread EXCEPT ![t] =
       [pc |-> "returned",
        last |-> <<hthread[t].method, hthread[t].prefix>>]]
  /\ UNCHANGED <<dbfile, dbcall, pmvars, fbvars, etvars>>

InitHere == PmIdle /\ FbIdle /\ EtIdle /\ DbIdle

NextHere ==
  \E t \in HereThreads :
    \/ \E method \in HereMethods, prefix \in HerePrefixes :
         HereFormat(t, method, prefix)
    \/ HereLock(t)
    \/ HereStore(t)

SpecHere == InitHere /\ [][NextHere]_vars

(***************************************************************************)
(* Vocabulary of the properties.                                           *)
(***************************************************************************)
IsBlkHdr(w) == TypeId(w) = 1 /\ TypeDef(w) = 0
IsBlkTrl(w) == TypeId(w) = 1 /\ TypeDef(w) = 1
IsEvtHdr(w) == TypeId(w) = 1 /\ TypeDef(w) = 2
\* an untagged word, or a tagged word of a type other than 0, 1, 2
IsDataWord(w) == TypeId(w) = 0 \/ TypeDef(w) \notin {0, 1, 2}

\* the positions of the event headers of buf, and the k-th of them
EvtHdrPos(buf) == { p \in DOMAIN buf : IsEvtHdr(buf[p]) }
KthEvtHdr(buf, k) ==
  CHOOSE p \in EvtHdrPos(buf) : Cardinality({ q \in EvtHdrPos(buf) : q < p }) = k - 1

\* buf is BlockHeader(slot, N > 1), N events (an EventHeader(slot) and its
\* data words), BlockTrailer(slot)
IsOneBlock(buf, slot) ==
  /\ Len(buf) >= 3
  /\ IsBlkHdr(buf[1]) /\ SlotOf(buf[1]) = slot /\ BlockSizeOf(buf[1]) > 1
  /\ IsBlkTrl(buf[Len(buf)]) /\ SlotOf(buf[Len(buf)]) = slot
  /\ IsEvtHdr(buf[2])
  /\ \A p \in 2..(Len(buf) - 1) :
       \/ IsEvtHdr(buf[p]) /\ SlotOf(buf[p]) = slot
       \/ IsDataWord(buf[p])
  /\ Cardinality(EvtHdrPos(buf)) = BlockSizeOf(buf[1])

\* the sub-buffers of such a block: the block header, then event k's words;
\* the last one ends with the trailer
ExpectedSubBuffers(buf) ==
  LET n == Cardinality(EvtHdrPos(buf))
  IN  [ k \in 1..n |->
          <<buf[1]>> \o SubSeq(buf, KthEvtHdr(buf, k),
                               IF k < n THEN KthEvtHdr(buf, k + 1) - 1 ELSE Len(buf)) ]

\* buf is a sequence of complete blocks: BlockHeader, events (EventHeader,
\* data words), BlockTrailer of the header's slot
RECURSIVE ScanBlocks(_, _, _, _)
ScanBlocks(buf, p, mode, slot) ==
  IF p > Len(buf) THEN mode = "out"
  ELSE LET w == buf[p]
       IN  CASE mode = "out" ->
                  IsBlkHdr(w) /\ ScanBlocks(buf, p + 1, "hdr", SlotOf(w))
             [] mode = "hdr" ->
                  \/ IsEvtHdr(w) /\ ScanBlocks(buf, p + 1, "evt", slot)
                  \/ IsBlkTrl(w) /\ SlotOf(w) = slot /\ ScanBlocks(buf, p + 1, "out", slot)
             [] OTHER ->
                  \/ IsDataWord(w) /\ ScanBlocks(buf, p + 1, "evt", slot)
                  \/ IsEvtHdr(w) /\ ScanBlocks(buf, p + 1, "evt", slot)
                  \/ IsBlkTrl(w) /\ SlotOf(w) = slot /\ ScanBlocks(buf, p + 1, "out", slot)

IsBlockSequence(buf) == buf # <<>> /\ ScanBlocks(buf, 1, "out", 0)

\* the slot of the block position p of a block sequence lies in
BlockSlotAt(buf, p) ==
  LET h == CHOOSE q \in 1..p :
             IsBlkHdr(buf[q]) /\ \A r \in (q + 1)..p : ~IsBlkHdr(buf[r])
  IN  SlotOf(buf[h])

\* the words of the blocks of slot 'slot'
WordsOfSlot(buf, slot) ==
  { buf[p] : p \in { q \in DOMAIN buf : BlockSlotAt(buf, q) = slot } }

\* the words of all the sub-buffers of an eventblock
WordsOf(eventblock) ==
  UNION { { eventblock[k][j] : j \in DOMAIN eventblock[k] } : k \in DOMAIN eventblock }

\* the loop state of a SplitBuffer call on members m before word p + 1 of buf
LoopBefore(m, buf, p) == SplitLoop(LoopInit(ClearBlocks(m)), SubSeq(buf, 1, p))

\* the step is a SplitBuffer call on instance i that runs the loop
SplitStep(i) ==
  /\ lastop'[i] = "SplitBuffer"
  /\ pm'[i] = SplitBuffer(pm[i], codabuffer'[i]).m
  /\ pm[i].fFirstTime \/ pm[i].fMultiBlockMode

(***************************************************************************)
(* C1.  For a buffer BlockHeader(slot s, N > 1), N events (EventHeader(s)  *)
(* and its data words, untagged or tagged with a type other than 0, 1, 2), *)
(* BlockTrailer(s), SplitBuffer on the module of slot s leaves exactly N   *)
(* sub-buffers: sub-buffer k is the block header, event header k and the   *)
(* data words of event k; the last one ends with the block trailer.        *)
(***************************************************************************)
C1_SplitsOneBlock ==
  \A i \in Insts :
    (lastop[i] = "SplitBuffer" /\ IsOneBlock(codabuffer[i], pm[i].fSlot))
      => pm[i].eventblock = ExpectedSubBuffers(codabuffer[i])

(***************************************************************************)
(* C2 as stated.  In multiblock mode, for a buffer made of the blocks of   *)
(* several slots, every frame word (block header, event header, block      *)
(* trailer) of every sub-buffer carries the module's slot in its slot      *)
(* field and every data word lies inside a block of the module's slot.     *)
(***************************************************************************)
C2_OnlyOwnSlotFields ==
  \A i \in Insts :
    (lastop[i] = "SplitBuffer" /\ pm[i].fMultiBlockMode
       /\ IsBlockSequence(codabuffer[i]))
      => \A w \in WordsOf(pm[i].eventblock) :
           IF IsDataWord(w)
             THEN w \in WordsOfSlot(codabuffer[i], pm[i].fSlot)
             ELSE SlotOf(w) = pm[i].fSlot

(***************************************************************************)
(* C2 as amended.  In multiblock mode, for a buffer made of the blocks of  *)
(* several slots, every word of every sub-buffer is a word of a block of   *)
(* the module's slot (its block header, an event header or data word       *)
(* inside it, its trailer); no word of another slot's block is appended,   *)
(* whatever the slot field of the event headers.                           *)
(***************************************************************************)
C2_OnlyOwnBlockWords ==
  \A i \in Insts :
    (lastop[i] = "SplitBuffer" /\ pm[i].fMultiBlockMode
       /\ IsBlockSequence(codabuffer[i]))
      => WordsOf(pm[i].eventblock) \subseteq WordsOfSlot(codabuffer[i], pm[i].fSlot)

\* a buffer with a neighbour's block before the own block was split in two
C2_Witness ==
  /\ lastop[1] = "SplitBuffer" /\ pm[1].fMultiBlockMode
  /\ IsBlockSequence(codabuffer[1])
  /\ BlockSlotAt(codabuffer[1], 1) = OtherSlot
  /\ Len(pm[1].eventblock) = 2
  /\ \E w \in WordsOf(pm[1].eventblock) : IsEvtHdr(w) /\ SlotOf(w) # pm[1].fSlot

(***************************************************************************)
(* C3.  In multiblock mode with N >= 1 sub-buffers, the k-th GetNextBlock  *)
(* call after a ReStart returns sub-buffer k, and BlockIsDone() is true    *)
(* after it exactly when k = N; ReStart and GetNextBlock leave eventblock  *)
(* as it is, so a further ReStart and N calls return the same sequence.    *)
(***************************************************************************)
C3_IterationStep ==
  \A i \in Insts :
    /\ (lastop'[i] \in {"ReStart", "GetNextBlock"})
         => pm'[i].eventblock = pm[i].eventblock
    /\ (lastop'[i] = "ReStart")
         => (pm'[i].index_buffer = 0 /\ ~pm'[i].fBlockIsDone)
    /\ (/\ lastop'[i] = "GetNextBlock" /\ base'[i] = "ReStart"
        /\ pm'[i].fMultiBlockMode
        /\ ncalls'[i] \in 1..Len(pm'[i].eventblock))
         => /\ ret'[i].block = pm'[i].eventblock[ncalls'[i]]
            /\ pm'[i].fBlockIsDone <=> (ncalls'[i] = Len(pm'[i].eventblock))

C3_Iteration == [][C3_IterationStep]_vars

\* the second of two sub-buffers was returned by the second call after ReStart
C3_Witness ==
  /\ lastop[1] = "GetNextBlock" /\ base[1] = "ReStart"
  /\ pm[1].fMultiBlockMode
  /\ Len(pm[1].eventblock) = 2 /\ ncalls[1] = 2
  /\ pm[1].fBlockIsDone
  /\ ret[1].block = pm[1].eventblock[2]
  /\ pm[1].eventblock[1] # pm[1].eventblock[2]

(***************************************************************************)
(* C4 as stated.  For every buffer of complete blocks whose block headers  *)
(* all declare block_size <= 1, SplitBuffer leaves exactly one sub-buffer, *)
(* equal to the buffer, whatever the module split before.                  *)
(***************************************************************************)
AllSingleEvent(buf) ==
  /\ IsBlockSequence(buf)
  /\ \A p \in DOMAIN buf : IsBlkHdr(buf[p]) => BlockSizeOf(buf[p]) <= 1

C4_SingleBlockPassThrough ==
  \A i \in Insts :
    (lastop[i] = "SplitBuffer" /\ AllSingleEvent(codabuffer[i]))
      => pm[i].eventblock = <<codabuffer[i]>>

(***************************************************************************)
(* C4 as amended.  The same, for a module that is not in multiblock mode   *)
(* when the call starts: the one sub-buffer is the buffer, the call        *)
(* returns 1 and the module stays in legacy mode.                          *)
(***************************************************************************)
C4_LegacyPassThrough ==
  \A i \in Insts :
    (lastop[i] = "SplitBuffer" /\ AllSingleEvent(codabuffer[i]) /\ ~entry[i])
      => /\ pm[i].eventblock = <<codabuffer[i]>>
         /\ ret[i].code = 1
         /\ ~pm[i].fMultiBlockMode

\* a buffer with the single-event blocks of both slots was passed through
C4_Witness ==
  /\ lastop[1] = "SplitBuffer" /\ AllSingleEvent(codabuffer[1]) /\ ~entry[1]
  /\ \E p \in DOMAIN codabuffer[1] : BlockSlotAt(codabuffer[1], p) = OtherSlot
  /\ \E p \in DOMAIN codabuffer[1] : BlockSlotAt(codabuffer[1], p) = OwnSlot
  /\ pm[1].eventblock = <<codabuffer[1]>>
  /\ pm[1].block_size = 0

(***************************************************************************)
(* C5.  In multiblock mode, while an event of the module's slot is open,   *)
(* an untagged word or a tagged word of a type other than 0, 1, 2 is       *)
(* appended to the open sub-buffer; it neither closes that sub-buffer nor  *)
(* starts another, whatever tagged word came before it.                    *)
(***************************************************************************)
C5_DataStep ==
  \A i \in Insts :
    SplitStep(i) =>
      \A p \in 0..(Len(codabuffer'[i]) - 1) :
        LET st == LoopBefore(pm[i], codabuffer'[i], p)
            w  == codabuffer'[i][p + 1]
            nx == SplitWord(st, w)
        IN  (st.m.fMultiBlockMode /\ st.oneEventBuffer # <<>> /\ IsDataWord(w))
              => /\ nx.oneEventBuffer = Append(st.oneEventBuffer, w)
                 /\ nx.m.eventblock = st.m.eventblock

C5_DataIsAppended == [][C5_DataStep]_vars

(***************************************************************************)
(* C6.  Every sub-buffer SplitBuffer produces in multiblock mode has at    *)
(* least two words, the first the block header of the module's slot and    *)
(* the second an event header.                                             *)
(***************************************************************************)
C6_SelfContained ==
  \A i \in Insts :
    (lastop[i] = "SplitBuffer" /\ pm[i].fMultiBlockMode)
      => \A k \in DOMAIN pm[i].eventblock :
           LET sub == pm[i].eventblock[k]
           IN  /\ Len(sub) >= 2
               /\ IsBlkHdr(sub[1]) /\ SlotOf(sub[1]) = pm[i].fSlot
               /\ IsEvtHdr(sub[2])

(***************************************************************************)
(* C7.  Two instances of the same slot that enter SplitBuffer with the     *)
(* same multiblock flag and the same buffer end with the same sub-buffer   *)
(* list, whatever buffers each of them split before.                       *)
(***************************************************************************)
C7_NoLeak ==
  \A i, j \in Insts :
    (/\ lastop[i] = "SplitBuffer" /\ lastop[j] = "SplitBuffer"
     /\ pm[i].fSlot = pm[j].fSlot
     /\ entry[i] = entry[j]
     /\ codabuffer[i] = codabuffer[j])
      => pm[i].eventblock = pm[j].eventblock

(***************************************************************************)
(* C8.  After SplitBuffer returned in multiblock mode with N sub-buffers,  *)
(* the k-th of N GetNextBlock calls made with no ReStart in between        *)
(* returns sub-buffer k, and BlockIsDone() is true after the N-th.         *)
(***************************************************************************)
C8_CursorRebuilt ==
  \A i \in Insts :
    (/\ lastop[i] = "GetNextBlock" /\ base[i] = "SplitBuffer"
     /\ pm[i].fMultiBlockMode
     /\ ncalls[i] \in 1..Len(pm[i].eventblock))
      => /\ ret[i].block = pm[i].eventblock[ncalls[i]]
         /\ pm[i].fBlockIsDone <=> (ncalls[i] = Len(pm[i].eventblock))

(***************************************************************************)
(* C9.  A block header of another slot leaves the module's multiblock      *)
(* flag, its block_size and its stored block header word unchanged.        *)
(***************************************************************************)
C9_HeaderStep ==
  \A i \in Insts :
    SplitStep(i) =>
      \A p \in 0..(Len(codabuffer'[i]) - 1) :
        LET st == LoopBefore(pm[i], codabuffer'[i], p)
            w  == codabuffer'[i][p + 1]
            nx == SplitWord(st, w)
        IN  (IsBlkHdr(w) /\ SlotOf(w) # st.m.fSlot)
              => /\ nx.m.fMultiBlockMode = st.m.fMultiBlockMode
                 /\ nx.m.block_size = st.m.block_size
                 /\ nx.m.fBlockHeader = st.m.fBlockHeader

C9_ForeignHeaderIgnored == [][C9_HeaderStep]_vars

(***************************************************************************)
(* C10.  Whenever the buffer holds a block header of the module's slot     *)
(* with block_size > 1, the module is in multiblock mode when SplitBuffer  *)
(* returns and the buffer was split (return code 0), on the first buffer   *)
(* and on every later one.                                                 *)
(***************************************************************************)
C10_SwitchesToMultiBlock ==
  \A i \in Insts :
    (/\ lastop[i] = "SplitBuffer"
     /\ \E p \in DOMAIN codabuffer[i] :
          /\ IsBlkHdr(codabuffer[i][p])
          /\ SlotOf(codabuffer[i][p]) = pm[i].fSlot
          /\ BlockSizeOf(codabuffer[i][p]) > 1)
      => /\ pm[i].fMultiBlockMode
         /\ ret[i].code = 0

(***************************************************************************)
(* C11.  The multiblock flag is sticky: once fMultiBlockMode is true it    *)
(* is true after every SplitBuffer, ReStart, GetNextBlock and PrintBlocks  *)
(* call, also for buffers whose block headers declare block_size <= 1.     *)
(***************************************************************************)
C11_StickyStep ==
  \A i \in Insts : pm[i].fMultiBlockMode => pm'[i].fMultiBlockMode

C11_MultiBlockIsSticky == [][C11_StickyStep]_vars

\* a module in multiblock mode split a buffer of single-event blocks of its
\* own slot and is still in multiblock mode
C11_Witness ==
  /\ lastop[1] = "SplitBuffer" /\ entry[1]
  /\ AllSingleEvent(codabuffer[1])
  /\ BlockSlotAt(codabuffer[1], 1) = OwnSlot
  /\ pm[1].fMultiBlockMode
  /\ pm[1].block_size = 1

(***************************************************************************)
(* C12.  In both modes, between two ReStart calls the k-th GetNextBlock    *)
(* call returns sub-buffer k, the iteration reports done (BlockIsDone())   *)
(* once all N sub-buffers have been returned, and a call made after that   *)
(* does not return one of the sub-buffers again.                           *)
(***************************************************************************)
C12_SinglePass ==
  \A i \in Insts :
    (/\ lastop[i] = "GetNextBlock" /\ base[i] = "ReStart"
     /\ pm[i].eventblock # <<>>)
      => LET n == Len(pm[i].eventblock)
             k == ncalls[i]
         IN  /\ (k <= n) => ret[i].block = pm[i].eventblock[k]
             /\ pm[i].fBlockIsDone <=> (k >= n)
             /\ (k > n) => \A j \in 1..n : ret[i].block # pm[i].eventblock[j]

(***************************************************************************)
(* Vocabulary of the Fastbus properties.                                   *)
(***************************************************************************)
\* bits 31..27 of a word
SlotBits(w) == w[1] \div 2048

\* the positions of the run of words of slot 'slot' that starts at 'start'
\* and does not pass 'pstop'
SlotRun(evbuffer, slot, start, pstop) ==
  { p \in start..pstop : \A q \in start..p : SlotBits(evbuffer[q]) = slot }

\* a LoadSlot call on instance i was the last one to complete
Loaded(i) == fbcall.inst = i

C14_StopsAtBound ==
  \A i \in Insts :
    Loaded(i) =>
      /\ \A p \in fbcall.reads : p <= fbcall.pstop
      /\ \A k \in DOMAIN fbcall.at :
           /\ fbcall.at[k] <= fbcall.pstop
           /\ \A q \in fbcall.start..fbcall.at[k] :
                SlotBits(fbcall.evbuffer[q]) = fb[i].fSlot

(***************************************************************************)
(* C15.  Round trip: a hit whose word is built from the module's slot, a   *)
(* channel and a value within the module's masks is forwarded with that    *)
(* channel and value and the word itself as rawWord; a word with the slot  *)
(* bits of another slot is never forwarded.                                *)
(***************************************************************************)
C15_RoundTrip ==
  \A i \in Insts :
    Loaded(i) =>
      \A k \in DOMAIN fbcall.hits :
        LET w == fbcall.evbuffer[fbcall.at[k]]
        IN  /\ SlotBits(w) = fb[i].fSlot
            /\ fbcall.hits[k].raw = w
            /\ \A c \in FbChans, v \in FbValues :
                 (w = Encode(fb[i], fb[i].fSlot, c, v))
                   => /\ fbcall.hits[k].chan = <<0, c>>
                      /\ fbcall.hits[k].data = <<0, v>>

\* both hits of the module's own encoding were forwarded with their channel
\* and value, and the scan stopped at a word of another slot
C15_Witness ==
  /\ Loaded(1) /\ fb[1].fSlot = 31
  /\ \E k \in DOMAIN fbcall.hits :
       /\ fbcall.hits[k].raw = Encode(fb[1], 31, 31, 65535)
       /\ fbcall.hits[k].chan = <<0, 31>> /\ fbcall.hits[k].data = <<0, 65535>>
  /\ fbcall.start + fbcall.ret <= fbcall.pstop
  /\ SlotBits(fbcall.evbuffer[fbcall.start + fbcall.ret]) = 3

(***************************************************************************)
(* C16.  The bounds check is made per instance: once LoadSlot has been     *)
(* called on an instance constructed with crate >= MAXROC or slot >        *)
(* MAXSLOT_FB, the offending field of that instance is 0, whether or not   *)
(* LoadSlot was called on another instance before.                         *)
(***************************************************************************)
C16_ClampPerInstance ==
  \A i \in Insts :
    (nloads[i] >= 1) =>
      /\ (fb0[i].fCrate >= MAXROC) => fb[i].fCrate = 0
      /\ (fb0[i].fSlot > MAXSLOT_FB) => fb[i].fSlot = 0

(***************************************************************************)
(* C17.  LoadSlot calls running concurrently on two instances of different *)
(* (crate, slot): under every interleaving each instance ends with the     *)
(* hits, header, words-seen count and crate/slot fields it ends with when  *)
(* its call runs alone.                                                    *)
(***************************************************************************)
C17_SameAsAlone ==
  \A i \in Insts :
    (fbrun[i].pc = "done") =>
      LET alone == LoadSlot(fb0[i], TRUE, fbrun[i].evbuffer, fbrun[i].start,
                            fbrun[i].pstop)
      IN  /\ fbrun[i].hits = alone.hits
          /\ fb[i].fHeader = alone.m.fHeader
          /\ fb[i].fWordsSeen = alone.m.fWordsSeen
          /\ fb[i].fCrate = alone.m.fCrate
          /\ fb[i].fSlot = alone.m.fSlot

(***************************************************************************)
(* Vocabulary of the ET client properties.                                 *)
(***************************************************************************)
\* the last call was a codaRead that fetched a chunk / that copied an event
Fetched == etcall.op = "codaRead" /\ etcall.fetched
Copied == etcall.op = "codaRead" /\ etcall.copied # NoEvent
\* the call got past the checks: it returned CODA_OK, or it ended in exit(1)
\* because et_events_put of the used-up chunk failed
Accepted ==
  \/ etcall.status = "CODA_OK"
  \/ /\ etcall.status = "exit"
     /\ etcall.calls # <<>> /\ etcall.calls[Len(etcall.calls)] = "put-failed"

(***************************************************************************)
(* C18.  Length boundary.  A chunk whose events all have word0 + 1 <=      *)
(* MAXEVLEN passes the length check of the codaRead call that fetched it,  *)
(* and when its first event has word0 + 1 = MAXEVLEN (and the byte length  *)
(* to match) that event is copied to evbuffer in full by the same call,    *)
(* which does not return CODA_ERROR.  A chunk holding an event with        *)
(* word0 + 1 = MAXEVLEN + 1 makes the call that fetched it return          *)
(* CODA_ERROR.                                                             *)
(***************************************************************************)
C18_LengthBoundary ==
  Fetched =>
    /\ (\E j \in DOMAIN etchunk : etchunk[j].word0 + 1 = MAXEVLEN + 1)
         => (etcall.status = "CODA_ERROR" /\ etcall.copied = NoEvent)
    /\ (\A j \in DOMAIN etchunk : etchunk[j].word0 + 1 <= MAXEVLEN)
         => /\ etcall.copied = etchunk[1]
            /\ (/\ etchunk[1].word0 + 1 = MAXEVLEN
                /\ etchunk[1].nbytes = bpi * (etchunk[1].word0 + 1))
                 => /\ et.evbuffer = [id |-> etchunk[1].id,
                                      len |-> etchunk[1].nbytes]
                    /\ Accepted

\* a chunk of two events was fetched and its first event, of MAXEVLEN words,
\* was delivered with CODA_OK
C18_Witness ==
  /\ Fetched /\ Len(etchunk) = 2
  /\ etchunk[1].word0 + 1 = MAXEVLEN
  /\ etcall.status = "CODA_OK"
  /\ et.evbuffer = [id |-> etchunk[1].id, len |-> bpi * MAXEVLEN]
  /\ et.nused = 1

(***************************************************************************)
(* C19.  No codaRead call returns CODA_OK after copying to evbuffer an     *)
(* event whose declared length word0 + 1 exceeds MAXEVLEN: neither the     *)
(* call that fetched the chunk nor a later one.                            *)
(***************************************************************************)
C19_OverLengthNeverHandedOut ==
  (Copied /\ etcall.status = "CODA_OK") => etcall.copied.word0 + 1 <= MAXEVLEN

(***************************************************************************)
(* C20.  codaRead copies at most sizeof(int) * MAXEVLEN bytes to evbuffer; *)
(* when the byte length of the ET event exceeds that capacity the call     *)
(* returns CODA_ERROR; an event whose byte length equals the capacity is   *)
(* copied in full and accepted (the call returns CODA_OK; when the event   *)
(* is the last of its chunk and et_events_put fails the process exits).    *)
(***************************************************************************)
C20_CopyWithinCapacity ==
  Copied =>
    /\ et.evbuffer.id = etcall.copied.id
    /\ et.evbuffer.len <= bpi * MAXEVLEN
    /\ et.evbuffer.len <= etcall.copied.nbytes
    /\ (etcall.copied.nbytes > bpi * MAXEVLEN) => etcall.status = "CODA_ERROR"
    /\ (etcall.copied.nbytes = bpi * MAXEVLEN)
         => (et.evbuffer.len = etcall.copied.nbytes /\ Accepted)

\* an ET event one byte longer than evbuffer was cut to the capacity and the
\* call returned CODA_ERROR
C20_Witness ==
  /\ Copied /\ etcall.copied.nbytes = bpi * MAXEVLEN + 1
  /\ et.evbuffer.len = bpi * MAXEVLEN
  /\ etcall.status = "CODA_ERROR"

(***************************************************************************)
(* C21.  When et_events_put reports an error after the last event of a     *)
(* chunk was copied, codaRead does not return: the process exits.  No call *)
(* in which the put failed returns CODA_OK, and once a put has failed no   *)
(* further call on the client takes place, so no further event is          *)
(* delivered.                                                              *)
(***************************************************************************)
PutFailed(call) ==
  \E k \in DOMAIN call.calls : call.calls[k] = "put-failed"

C21_FailedPutStep ==
  /\ ~PutFailed(etcall)
  /\ PutFailed(etcall') =>
       /\ etcall'.op = "codaRead"
       /\ etcall'.status = "exit"
       /\ ~etsys'.running
       /\ et'.nused >= et'.nread

C21_FailedPutIsFatal == [][C21_FailedPutStep]_vars

\* the second event of a chunk was copied by a call that did not fetch, the
\* put of the chunk failed and the process exited
C21_Witness ==
  /\ etcall.op = "codaRead" /\ PutFailed(etcall)
  /\ ~etcall.fetched /\ Len(etchunk) = 2 /\ etcall.copied = etchunk[2]
  /\ etcall.status = "exit" /\ ~etsys.running
  /\ etsys.held > 0

(***************************************************************************)
(* C22.  A SplitBuffer call that ends in multiblock mode with a number of  *)
(* sub-buffers different from the declared block_size completes like a     *)
(* consistent split: it returns 0 and throws nothing, eventblock holds the *)
(* sub-buffers the loop produced, in order, and after ReStart the k-th     *)
(* GetNextBlock call returns the k-th of them.                             *)
(***************************************************************************)
\* the vector the k-th GetNextBlock call on members m returns
RECURSIVE KthBlock(_, _)
KthBlock(m, k) ==
  IF k = 1 THEN GetNextBlock(m).block
  ELSE KthBlock(GetNextBlock(m).m, k - 1)

\* the step is a SplitBuffer call on i that reports 'num events in block
\* inconsistent'
MismatchStep(i) ==
  /\ SplitStep(i)
  /\ pm'[i].fMultiBlockMode
  /\ ret'[i].error

\* the sub-buffers the loop of that call produced are in eventblock and are
\* returned in order after ReStart
C22_BlocksKept(i) ==
  /\ pm'[i].eventblock
       = LoopBefore(pm[i], codabuffer'[i], Len(codabuffer'[i])).m.eventblock
  /\ \A k \in DOMAIN pm'[i].eventblock :
       KthBlock(ReStart(pm'[i]), k) = pm'[i].eventblock[k]

C22_MismatchStepOk ==
  MismatchStep(1) =>
    /\ ret'[1].code = 0
    /\ ~ret'[1].thrown
    /\ C22_BlocksKept(1)

C22_MismatchIsBestEffort == [][C22_MismatchStepOk]_vars

(***************************************************************************)
(* C23.  A declared word count never changes the decoded result.           *)
(* SplitBuffer: when every block trailer of the buffer has its word-count  *)
(* field (bits 21-0) replaced by another value, the call from the same     *)
(* module state returns the same code and leaves the same members and the  *)
(* same sub-buffers, word for word, but for the replaced field of the      *)
(* trailer words.  LoadSlot of a module with a header word: when the       *)
(* word-count field of the first word of the range is replaced by another  *)
(* value (equal to the number of words seen, or not), the call from the    *)
(* same module state forwards the same hits and returns the same value.    *)
(***************************************************************************)
\* word-count values put into block trailers and Fastbus headers
TrailerCounts == {0, 3, 65541, 4194303}
HeaderCounts == {0, 1, 2, 3, 4, 2047}

\* the word with bits 21-0 replaced by n when it is a block trailer
RetrailWord(w, n) ==
  IF IsBlkTrl(w) THEN <<(w[1] \div 64) * 64 + n \div 65536, n % 65536>> ELSE w
Retrail(buf, n) == [p \in DOMAIN buf |-> RetrailWord(buf[p], n)]

\* the event buffer with the bits of mask fWdcntMask of word 'at' replaced by n
ReHeader(m, evbuffer, at, n) ==
  [evbuffer EXCEPT ![at] = <<@[1], @[2] - And16(@[2], m.fWdcntMask[2], 16) + n>>]

C23_SplitStep ==
  (lastop'[1] = "SplitBuffer" /\ pm'[1] = SplitBuffer(pm[1], codabuffer'[1]).m)
    => \A n \in TrailerCounts :
         \A r2 \in {SplitBuffer(pm[1], Retrail(codabuffer'[1], n))} :
             /\ r2.code = ret'[1].code
             /\ r2.thrown = ret'[1].thrown
             /\ r2.error = ret'[1].error
             /\ r2.m.eventblock
                  = [k \in DOMAIN pm'[1].eventblock |-> Retrail(pm'[1].eventblock[k], n)]
             /\ [r2.m EXCEPT !.eventblock = pm'[1].eventblock] = pm'[1]

C23_LoadStep ==
  \A i \in Insts :
    (fbcall'.inst = i /\ fb[i].fHasHeader)
      => \A n \in HeaderCounts :
           \A r2 \in {LoadSlot(fb[i], first_load,
                                ReHeader(fb[i], fbcall'.evbuffer, fbcall'.start, n),
                                fbcall'.start, fbcall'.pstop)} :
               /\ r2.hits = fbcall'.hits
               /\ r2.ret = fbcall'.ret
               /\ r2.at = fbcall'.at

C23_WordCountIsIgnored == [][C23_SplitStep /\ C23_LoadStep]_vars

\* a module with a header word forwarded one hit after a header whose
\* word count (291) is not the number of words seen (2)
C23_Witness ==
  /\ fbcall.inst = 2 /\ fb[2].fHasHeader
  /\ WordCountMismatch(fb[2])
  /\ fbcall.evbuffer = <<FbHeader(CfgHeader, 3, 3), Hit3, Hit3b, Hit31>>
  /\ fbcall.start = 2
  /\ fb[2].fWordsSeen = 2 /\ Len(fbcall.hits) = 1 /\ fbcall.ret = 2

(***************************************************************************)
(* Vocabulary of the warning counter properties.                           *)
(***************************************************************************)
\* the step is a SplitBuffer call on instance i
SplitCallOn(i) ==
  /\ lastop'[i] = "SplitBuffer"
  /\ pm'[i] # pm[i] \/ codabuffer'[i] # codabuffer[i] \/ ret'[i] # ret[i]

\* a 32-bit counter w advanced k times: w + k modulo 2^32, on the halves
Add32(w, k) ==
  LET lo == w[2] + (k % 65536)
  IN  <<(w[1] + (k \div 65536) + (lo \div 65536)) % 65536, lo % 65536>>

\* the occurrences instance i meets in the step, numbered from 1 over the
\* life of the instance, modulo 100 (2^32 % 100 = 96 does not matter here:
\* nwarn[i].from is below 2^32)
OccurrencesMod100(i) ==
  { (Mod100(nwarn[i].from) + nwarn[i].n + j) % 100 :
      j \in 1..(nwarn'[i].n - nwarn[i].n) }

\* a call on i leaves the other instances' counters alone, and the
\* sub-buffers it produces are those it produces from any other counter value
C24_Frame(i) ==
  /\ \A j \in Insts \ {i} : pm'[j] = pm[j] /\ nwarn'[j] = nwarn[j]
  /\ \A c \in {<<0, 0>>, <<0, 1>>, <<0, 57>>, <<65535, 65535>>} :
       SplitBuffer([pm[i] EXCEPT !.fNWarnings = c], codabuffer'[i]).m.eventblock
         = pm'[i].eventblock

(***************************************************************************)
(* C24 as stated.  Counting the inconsistent-slot occurrences an instance  *)
(* meets from 1, the warning is printed exactly for the occurrences 1,     *)
(* 101, 201, ... (those that are 1 modulo 100); a call on another instance *)
(* never advances the counter; the sub-buffers do not depend on whether    *)
(* the warning is printed.                                                 *)
(***************************************************************************)
C24_EveryHundredthStep ==
  \A i \in Insts :
    SplitCallOn(i) =>
      /\ ret'[i].printed = Cardinality({ k \in OccurrencesMod100(i) : k = 1 })
      /\ C24_Frame(i)

C24_EveryHundredth == [][C24_EveryHundredthStep]_vars

(***************************************************************************)
(* C24 amended.  The counter is a 32-bit unsigned member of the instance,  *)
(* equal to the number of occurrences the instance has met modulo 2^32;    *)
(* occurrence k is printed exactly when ((k - 1) mod 2^32) mod 100 = 0:    *)
(* occurrences 1, 101, 201, ... until the counter wraps, and from then on  *)
(* every hundredth counted from occurrence 2^32 + 1.  A call on another    *)
(* instance never advances the counter and the sub-buffers do not depend   *)
(* on whether the warning is printed.                                      *)
(***************************************************************************)
C24_EveryHundredthOfCounterStep ==
  \A i \in Insts :
    SplitCallOn(i) =>
      /\ pm[i].fNWarnings = Add32(nwarn[i].from, nwarn[i].n)
      /\ pm'[i].fNWarnings = Add32(nwarn[i].from, nwarn'[i].n)
      /\ ret'[i].printed
           = Cardinality({ j \in 1..(nwarn'[i].n - nwarn[i].n) :
                             Mod100(Add32(nwarn[i].from, nwarn[i].n + j - 1)) = 0 })
      /\ C24_Frame(i)

C24_EveryHundredthOfCounter == [][C24_EveryHundredthOfCounterStep]_vars

\* instance 1 has just printed the warning for its occurrence 101 while
\* instance 2 has met two occurrences of its own
C24_Witness ==
  /\ nwarn[1] = [from |-> <<0, 0>>, n |-> 101]
  /\ lastop[1] = "SplitBuffer" /\ ret[1].printed = 1
  /\ pm[1].fNWarnings = <<0, 101>>
  /\ nwarn[2].n = 2 /\ pm[2].fNWarnings = <<0, 2>>

(***************************************************************************)
(* Vocabulary of the database properties.                                  *)
(***************************************************************************)
\* the physical lines of a file in file order: the date tag of the section
\* a line lies in (1995-01-01 before any tag), and the last assignment to
\* exactly 'key' in a section dated T with T <= date and T >= the tag date
\* of the assignment accepted before it
RECURSIVE LastQualifying(_, _, _, _, _)
LastQualifying(file, p, date, key, st) ==
  IF p >= Len(file) THEN st
  ELSE LET x == file[p + 1] IN
    IF x.kind = "date"
      THEN LastQualifying(file, p + 1, date, key, [st EXCEPT !.T = x.date])
    ELSE IF x.kind = "key" /\ x.key = key /\ st.T <= date /\ st.T >= st.prev
      THEN LastQualifying(file, p + 1, date, key,
             [st EXCEPT !.found = TRUE, !.val = x.val, !.prev = st.T])
    ELSE LastQualifying(file, p + 1, date, key, st)

Qualifying(file, date, key) ==
  LastQualifying(file, 0, date, key,
    [T |-> D1995, prev |-> D1995, found |-> FALSE, val |-> 0])

\* the call made was LoadDBvalue with the std::string output
LoadedText == dbcall.op = "LoadDBvalue" /\ dbcall.type = "string"

\* every date or section tag of the file that comes after an assignment is
\* separated from it by a blank line
TagsSeparated(file) ==
  \A i \in 1..Len(file) : \A j \in i..Len(file) :
    (/\ file[i].kind = "key"
     /\ IsTag(file[j])
     /\ \A k \in (i + 1)..(j - 1) : file[k].kind # "key")
      => \E k \in (i + 1)..(j - 1) : file[k].kind = "blank"

\* no assignment of the file has a key that is a proper prefix of 'key'
NoShorterKey(file, key) ==
  \A i \in 1..Len(file) :
    file[i].kind = "key" => (file[i].key = key \/ ~StrncmpEqual(file[i].key, key))

(***************************************************************************)
(* C25.  LoadDBvalue(file, date, key, text) returns in text the value of   *)
(* the last line, in file order, that carries the requested key and lies   *)
(* in a section whose date tag T satisfies T <= date and T >= the tag date *)
(* of the previously accepted value; lines before any date tag count as    *)
(* dated 1995-01-01.                                                       *)
(***************************************************************************)
C25_LastQualifyingLine ==
  LoadedText =>
    \A e \in {Qualifying(dbfile, dbcall.date, dbcall.key)} :
      e.found => dbcall.out = <<e.val>>

\* the same for the files in which a blank line separates every tag from
\* the assignment before it and no key is a proper prefix of the requested
\* one: there the text is that value, and the key is found exactly when
\* such a line exists
C25_OnSeparatedFiles ==
  (LoadedText /\ TagsSeparated(dbfile) /\ NoShorterKey(dbfile, dbcall.key)) =>
    \A e \in {Qualifying(dbfile, dbcall.date, dbcall.key)} :
      /\ e.found <=> dbcall.ret = 0
      /\ e.found => dbcall.out = <<e.val>>

\* the physical lines from position p on: the position after the last date
\* tag T with T <= date and T >= every tag accepted before it; with
\* end_on_tag the lines after the first tag that is not a date tag are not
\* looked at
RECURSIVE LastTag(_, _, _, _, _)
LastTag(file, p, date, end_on_tag, st) ==
  IF p >= Len(file) THEN st
  ELSE LET x == file[p + 1] IN
    IF x.kind = "date" /\ x.date <= date /\ x.date >= st.prev
      THEN LastTag(file, p + 1, date, end_on_tag,
             [prev |-> x.date, found |-> TRUE, pos |-> p + 1])
    ELSE IF end_on_tag /\ x.kind = "tag" THEN st
    ELSE LastTag(file, p + 1, date, end_on_tag, st)

\* the call made was SeekDBdate
Sought == dbcall.op = "SeekDBdate"

SoughtTag ==
  LastTag(dbfile, dbcall.start, dbcall.date, dbcall.end_on_tag,
    [prev |-> D1995, found |-> FALSE, pos |-> dbcall.start])

(***************************************************************************)
(* C26.  SeekDBdate scans forward from the current position and leaves the *)
(* file on the line following the last date tag T in scan order with       *)
(* T <= date and T >= every previously accepted tag, returning 1; when no  *)
(* tag qualifies it restores the position it had on entry and returns 0.   *)
(* With end_on_tag the scan ends only at a tag that is not a date tag; a   *)
(* date tag that does not qualify is skipped.                              *)
(***************************************************************************)
C26_SeekSkipsOtherDates ==
  Sought =>
    \A e \in {SoughtTag} :
      /\ dbcall.ret = (IF e.found THEN 1 ELSE 0)
      /\ dbcall.pos = e.pos

\* the same for the calls without end_on_tag, where it holds
C26_WithoutEndOnTag == (Sought /\ ~dbcall.end_on_tag) => C26_SeekSkipsOtherDates

\* the call made was LoadDBvalue, with any of the four output types
LoadedValue == dbcall.op = "LoadDBvalue"

(***************************************************************************)
(* C27.  LoadDBvalue returns 0 when the key is found and 1 when it is not  *)
(* found; when it is not found the caller's output variable (std::string,  *)
(* Double_t, Int_t or TString) is left unchanged.                          *)
(***************************************************************************)
C27_FoundOrUnchanged ==
  LoadedValue =>
    \A e \in {Qualifying(dbfile, dbcall.date, dbcall.key)} :
      /\ e.found => dbcall.ret = 0
      /\ ~e.found => (dbcall.ret = 1 /\ dbcall.out = Before(dbcall.type))

\* what holds of every call: the return value is 0 or 1, and the output
\* variable is left unchanged exactly when it is 1
C27_UnchangedWhenOne ==
  LoadedValue =>
    /\ dbcall.ret \in {0, 1}
    /\ dbcall.ret = 1 <=> dbcall.out = Before(dbcall.type)

\* the statement itself for the files in which a blank line separates every
\* tag from the assignment before it and no key is a proper prefix of the
\* requested one
C27_OnSeparatedFiles ==
  (LoadedValue /\ TagsSeparated(dbfile) /\ NoShorterKey(dbfile, dbcall.key))
    => C27_FoundOrUnchanged

\* the file has a line that assigns to exactly 'key'; the value of the
\* last such line
InFile(file, key) ==
  \E i \in 1..Len(file) : file[i].kind = "key" /\ file[i].key = key
ValueIn(file, key) ==
  LET at == {i \in 1..Len(file) : file[i].kind = "key" /\ file[i].key = key}
  IN file[CHOOSE i \in at : \A j \in at : j <= i].val

\* the levels above prefix P: P cut after one of its dots other than the
\* last, or the empty prefix; Up(P, d) is the one d levels up
Ups(P) ==
  {SubSeq(P, 1, j) : j \in {j \in 0..(Len(P) - 1) : j = 0 \/ P[j] = "."}}
Up(P, d) ==
  IF d = 0 THEN P
  ELSE CHOOSE a \in Ups(P) : Cardinality({b \in Ups(P) : Len(b) > Len(a)}) = d - 1

\* the levels search value s allows to climb from P: all of them for 1, at
\* most n for -n, none for 0
Climbs(P, s) ==
  IF s = 0 THEN 0
  ELSE IF s < 0 /\ 0 - s < Cardinality(Ups(P)) THEN 0 - s
  ELSE Cardinality(Ups(P))

\* the keys to try for 'name' from P: one level up at a time, up to the
\* first level that has the key
KeysToTry(file, P, name, s) ==
  LET has == {d \in 0..Climbs(P, s) : InFile(file, Up(P, d) \o name)}
      last == IF has = {} THEN Climbs(P, s)
              ELSE CHOOSE d \in has : \A e \in has : d <= e
  IN [d \in 1..(last + 1) |-> Up(P, d - 1) \o name]

\* the call made was LoadDatabase; the search level in force for item i
\* and the keys to try for it
LoadedDatabase == dbcall.op = "LoadDatabase"
SearchOf(i) ==
  IF dbcall.req[i].search # 0 THEN dbcall.req[i].search ELSE dbcall.search
KeysOf(i) == KeysToTry(dbfile, dbcall.prefix, dbcall.req[i].name, SearchOf(i))
FoundFor(i) == InFile(dbfile, KeysOf(i)[Len(KeysOf(i))])

(***************************************************************************)
(* C28.  When a key is not found at prefix P, LoadDatabase retries one     *)
(* name-tree level up at a time and stops at the first level where the key *)
(* is found: with search = 1 it climbs to the empty prefix, with           *)
(* search = -n at most n levels, with search = 0 it does not retry; a      *)
(* non-zero per-item search value takes the place of the global one; the   *)
(* chain of retries is finite.  The value stored is that of the level      *)
(* where the key was found.                                                *)
(***************************************************************************)
C28_RetryChain ==
  LoadedDatabase =>
    /\ dbcall.tried[1] # <<>>
    /\ \A i \in 1..Len(dbcall.req) :
         dbcall.tried[i] # <<>> =>
           /\ dbcall.tried[i] = KeysOf(i)
           /\ dbcall.vars[i] =
                (IF FoundFor(i)
                   THEN ValueIn(dbfile, KeysOf(i)[Len(KeysOf(i))]) ELSE -1)

\* key 'nw', prefix 'L.vdc.u1.', search = 1, a file that has only 'nw':
\* 'L.vdc.u1.nw', 'L.vdc.nw', 'L.nw' and 'nw' were tried and nw's value stored
C28_Witness ==
  /\ LoadedDatabase
  /\ dbcall.prefix = PrefixAt[4] /\ dbcall.search = 1
  /\ Len(dbcall.req) = 1 /\ dbcall.req[1].name = nw /\ dbcall.req[1].search = 0
  /\ dbcall.tried[1] = <<PrefixAt[4] \o nw, PrefixAt[3] \o nw, PrefixAt[2] \o nw, nw>>
  /\ dbcall.ret = 0 /\ dbcall.vars[1] = 1

\* the first item of the request that is required and whose key is found at
\* none of the levels its search covers
Lacking(i) == ~dbcall.req[i].optional /\ ~FoundFor(i)
FirstLacking ==
  {i \in 1..Len(dbcall.req) : Lacking(i) /\ \A j \in 1..(i - 1) : ~Lacking(j)}

(***************************************************************************)
(* C29.  When a required key is missing, LoadDatabase stops at that item   *)
(* and returns 1 + the index of the item in the caller's request array,    *)
(* whether or not searching up the name tree is enabled for the item.  A   *)
(* missing optional key is not an error: the next item is processed.       *)
(***************************************************************************)
C29_IndexOfMissingKey ==
  LoadedDatabase =>
    /\ \A i \in FirstLacking :
         /\ dbcall.ret = 1 + (i - 1)
         /\ \A j \in 1..Len(dbcall.req) : dbcall.tried[j] # <<>> <=> j <= i
    /\ FirstLacking = {} =>
         /\ dbcall.ret = 0
         /\ \A j \in 1..Len(dbcall.req) : dbcall.tried[j] # <<>>

\* the same for the calls in which the missing required key was looked up
\* at one level only
C29_WithoutRetry ==
  (LoadedDatabase /\ \A i \in FirstLacking : Len(dbcall.tried[i]) = 1)
    => C29_IndexOfMissingKey

\* what the code returns when the missing required key was looked up at
\* more than one level: 1, the index in the one-item array of the retry
C29_AfterRetry ==
  LoadedDatabase =>
    \A i \in FirstLacking :
      /\ \A j \in 1..Len(dbcall.req) : dbcall.tried[j] # <<>> <=> j <= i
      /\ Len(dbcall.tried[i]) > 1 => dbcall.ret = 1

\* thread t has returned from a Here call: the arguments of its latest
\* call, and the text it reads through the pointer it received
HereReturned(t) == hthread[t].pc # "idle" /\ hthread[t].last # <<>>
LatestMethod(t) == hthread[t].last[1]
LatestPrefix(t) == hthread[t].last[2]
TextOf(t) == buffers[SelfId(t)]

\* what stands before the "::" of a method, and the method from there on
BeforeScope(method) ==
  IF \E j \in 1..Len(method) : method[j] = "::"
    THEN SubSeq(method, 1,
           (CHOOSE j \in 1..Len(method) :
              method[j] = "::" /\ \A k \in 1..(j - 1) : method[k] # "::") - 1)
    ELSE <<>>
FromScope(method) ==
  IF BeforeScope(method) = <<>> /\ (method = <<>> \/ method[1] # "::")
    THEN <<"::">> \o method
    ELSE SubSeq(method, Len(BeforeScope(method)) + 1, Len(method))

\* Class("shown")::method, ("shown")::method without a class, and just the
\* method when the prefix is empty
Labelled(method, prefix, shown) ==
  IF prefix = <<>> THEN method
  ELSE BeforeScope(method) \o <<"(\"">> \o shown \o <<"\")">> \o FromScope(method)

\* a prefix without its trailing dot
Undotted(prefix) ==
  IF prefix # <<>> /\ prefix[Len(prefix)] = "."
    THEN SubSeq(prefix, 1, Len(prefix) - 1) ELSE prefix

(***************************************************************************)
(* C30 as stated.  Under every interleaving of Here calls of different     *)
(* threads, the text a thread received from its latest call is not         *)
(* modified by another thread's call, and its content is                   *)
(* Class("prefix")::method when the method contains "::",                  *)
(* ("prefix")::method otherwise, and the method when the prefix is empty,  *)
(* prefix being the argument of the call.                                  *)
(***************************************************************************)
C30_OwnText ==
  \A t \in HereThreads :
    HereReturned(t) =>
      TextOf(t) = Labelled(LatestMethod(t), LatestPrefix(t), LatestPrefix(t))

(***************************************************************************)
(* C30 as amended.  The same, with the prefix shown without its trailing   *)
(* dot: Here("Class::method", "L.") gives Class("L")::method.              *)
(***************************************************************************)
C30_OwnTextUndotted ==
  \A t \in HereThreads :
    HereReturned(t) =>
      TextOf(t) =
        Labelled(LatestMethod(t), LatestPrefix(t), Undotted(LatestPrefix(t)))

\* thread 1 holds Class("L")::method from its latest call while thread 2,
\* which received ("L")::method before, is inside a further call
C30_Witness ==
  /\ HereReturned(1) /\ HereReturned(2)
  /\ hthread[1].pc = "returned" /\ hthread[2].pc = "locked"
  /\ hthread[1].last = << <<"Class", "::", "method">>, <<"L", ".">> >>
  /\ hthread[2].last = << <<"method">>, <<"L">> >>
  /\ TextOf(1) = <<"Class", "(\"", "L", "\")", "::", "method">>
  /\ TextOf(2) = <<"(\"", "L", "\")", "::", "method">>

(***************************************************************************)
(* Vocabulary of the ET call sequences.                                    *)
(***************************************************************************)
\* the step is a codaRead call / a codaClose call on the client
ReadStep == etcall'.op = "codaRead" /\ etsys.running
CloseStep == etcall'.op = "codaClose" /\ etsys.running
\* the ET library functions the call of the step invoked
Invoked(name) == \E k \in DOMAIN etcall'.calls : etcall'.calls[k] = name
\* the step's call asked ET for events, attached or not
AskedForEvents == Invoked("get") \/ Invoked("get-unattached")
\* a chunk is current and not used up when the call starts
ChunkPending == et.firstread = 0 /\ et.nused < et.nread

(***************************************************************************)
(* C31.  Chunked delivery.  A codaRead call fetches a chunk only when      *)
(* every event of the current chunk has been handed out; a call that       *)
(* starts with events pending does not fetch and copies event number nused *)
(* of the chunk most recently fetched; a call that returns CODA_OK has     *)
(* copied that event and advanced nused by one, so the events of a chunk   *)
(* are handed out one per call, in chunk order, none twice and none        *)
(* skipped; 0 <= nused <= nread holds after every call.                    *)
(***************************************************************************)
C31_ChunkStep ==
  ReadStep =>
    /\ AskedForEvents => ~ChunkPending
    /\ ChunkPending =>
         /\ ~etcall'.fetched
         /\ etchunk' = etchunk
         /\ etcall'.copied = etchunk[et.nused + 1]
         /\ et'.nused = et.nused + 1
    /\ etcall'.status = "CODA_OK" =>
         /\ etcall'.fetched => (etcall'.copied = etchunk'[1] /\ et'.nused = 1)
         /\ et'.nread = Len(etchunk')
    /\ 0 <= et'.nused /\ et'.nused <= et'.nread

C31_ChunkedDelivery == [][C31_ChunkStep]_vars

\* the same for the calls that did not end in a wild pointer dereference
C31_ChunkStepUnlessCrash ==
  (ReadStep /\ etcall'.status # "crash") => C31_ChunkStep

C31_UnlessCrash == [][C31_ChunkStepUnlessCrash]_vars

(***************************************************************************)
(* C32.  Every chunk obtained by a successful et_events_get is given back  *)
(* with et_events_put before the next et_events_get is issued, on every    *)
(* path through codaRead, the paths that return CODA_ERROR for an          *)
(* over-length or over-size event included: no et_events_get is issued     *)
(* while a chunk is held.                                                  *)
(***************************************************************************)
C32_GetStep == (ReadStep /\ AskedForEvents) => etsys.held = 0

C32_PutBeforeNextGet == [][C32_GetStep]_vars

\* where it fails: the call that copies the last event of a chunk calls
\* et_events_put unless that event is longer in bytes than evbuffer
C32_LastEventStep ==
  (/\ ReadStep
   /\ etcall'.copied # NoEvent
   /\ et'.nused >= et'.nread
   /\ ~Invoked("put") /\ ~Invoked("put-failed"))
    => /\ etcall'.status = "CODA_ERROR"
       /\ etcall'.copied.nbytes > bpi * MAXEVLEN

C32_PutUnlessOversize == [][C32_LastEventStep]_vars

(***************************************************************************)
(* C33: et_events_get is called only while the client is attached.         *)
(***************************************************************************)
\* init() has run (firstread is cleared) and the client is not attached:
\* init() failed, or codaClose detached
Unattached == et.firstread = 0 /\ ~etsys.attached

\* C33: every codaRead issued after init() failed on the first codaRead,
\* and every codaRead issued after codaClose detached and closed the
\* connection, returns CODA_ERROR without calling et_events_get
C33_UnattachedStep ==
  (ReadStep /\ Unattached)
    => ~AskedForEvents /\ etcall'.status = "CODA_ERROR"

C33_GetOnlyWhileAttached == [][C33_UnattachedStep]_vars

\* what holds: the codaRead in which init() fails returns CODA_ERROR without
\* calling et_events_get, and a codaRead of an unattached client that has
\* no event of a chunk left returns CODA_ERROR
C33_FailedInitStep ==
  /\ (ReadStep /\ Invoked("init") /\ ~etsys'.attached)
       => ~AskedForEvents /\ etcall'.status = "CODA_ERROR"
  /\ (ReadStep /\ Unattached /\ ~ChunkPending)
       => etcall'.status = "CODA_ERROR"

C33_FirstReadOnly == [][C33_FailedInitStep]_vars

\* a codaRead after a failed init() that calls et_events_get
C33_GetAfterFailedInit ==
  /\ etcall.op = "codaRead"
  /\ et.notopened = 1
  /\ \E k \in DOMAIN etcall.calls : etcall.calls[k] = "get-unattached"

(***************************************************************************)
(* C34: isOpen() tells whether the connection to the ET system is open.    *)
(***************************************************************************)
\* init() has succeeded and codaClose has not been effective since
OpenedNotClosed ==
  et.firstread = 0 /\ etsys.opened /\ etsys.attached /\ et.didclose = 0

\* C34: isOpen() is false after et_open failed in init(), false after
\* codaClose has closed the connection, and true after a successful init()
\* until codaClose
C34_IsOpenTellsOpen ==
  /\ et.notopened = 1 => ~isOpen(et)
  /\ (et.didclose = 1 /\ ~etsys.opened) => ~isOpen(et)
  /\ OpenedNotClosed => isOpen(et)

\* what holds: isOpen() is true only while no connection is open, and
\* false once codaClose has been effective
C34_TrueOnlyWhenNotOpen ==
  /\ isOpen(et) => ~etsys.opened /\ et.firstread = 0
  /\ et.didclose = 1 => ~isOpen(et)

\* isOpen() is false on a client that reads from an open connection
C34_FalseWhileOpen ==
  OpenedNotClosed /\ etcall.op = "codaRead" /\ ~isOpen(et)

\* isOpen() is true on a client whose et_open failed
C34_TrueAfterFailedOpen ==
  et.notopened = 1 /\ ~etsys.opened /\ isOpen(et)

(***************************************************************************)
(* C35: codaClose is idempotent.                                           *)
(***************************************************************************)
\* how often the step's call invoked the ET function (name)
Times(name) == Cardinality({ k \in DOMAIN etcall'.calls : etcall'.calls[k] = name })

\* C35: over any sequence of codaRead and codaClose calls (the destructor's
\* call is one more codaClose) et_station_detach and et_close are each
\* invoked at most once: only by a codaClose that finds didclose = 0 and
\* sets it, and didclose is never cleared; every codaClose after the first
\* effective one returns CODA_OK without calling ET; a codaClose before any
\* codaRead returns CODA_OK without calling ET and without marking the
\* client closed; the codaClose after a failed et_open returns CODA_ERROR
\* without calling detach or close
C35_CloseStep ==
  /\ et.didclose = 1 => et'.didclose = 1
  /\ ~CloseStep => ~Invoked("detach") /\ ~Invoked("close")
  /\ CloseStep =>
       /\ Times("detach") <= 1 /\ Times("close") <= 1
       /\ (Invoked("detach") \/ Invoked("close"))
            => et.didclose = 0 /\ et'.didclose = 1
       /\ et.didclose = 1
            => /\ etcall'.status = "CODA_OK" /\ etcall'.calls = <<>>
               /\ et' = et /\ etsys' = etsys
       /\ et.firstread = 1
            => /\ etcall'.status = "CODA_OK" /\ etcall'.calls = <<>>
               /\ et' = et /\ et'.didclose = 0 /\ etsys' = etsys
       /\ (et.firstread = 0 /\ et.didclose = 0 /\ et.notopened = 1)
            => /\ etcall'.status = "CODA_ERROR" /\ etcall'.calls = <<>>
               /\ et'.didclose = 1

C35_CloseIdempotent == [][C35_CloseStep]_vars

\* a codaClose that follows the one that detached and closed
C35_ClosedAgain ==
  /\ etcall.op = "codaClose" /\ etcall.status = "CODA_OK" /\ etcall.calls = <<>>
  /\ et.firstread = 0 /\ et.notopened = 0 /\ et.didclose = 1
  /\ ~etsys.opened /\ ~etsys.attached

(***************************************************************************)
(* The length check over the whole range of word0: codaRead on chunks of   *)
(* events whose first word is at the ends of the 32-bit range.             *)
(***************************************************************************)
\* word0 = 0x7FFFFFFF
EvMaxInt == [id |-> 6, word0 |-> kMaxInt, nbytes |-> 8]
\* word0 = 0x80000000
EvSignBit == [id |-> 7, word0 |-> -kMaxInt - 1, nbytes |-> 8]
\* word0 = 0xFFFFFFFF
EvAllOnes == [id |-> 8, word0 |-> -1, nbytes |-> 8]

LenEvents == {EvShort, EvOver, EvMaxInt, EvSignBit, EvAllOnes}

LenChunks == UNION { SeqsOfLen(LenEvents, n) : n \in 1..ET_CHUNK_SIZE }

LenInputs(c) ==
  [ init : IF c.firstread = 1 THEN {"ok", "noopen", "noattach"} ELSE {"ok"},
    get  : IF c.nused >= c.nread
             THEN {EtGetError} \cup { [err |-> FALSE, chunk |-> ch] : ch \in LenChunks }
             ELSE {EtGetError},
    put  : {"ok", "error"},
    ovf  : BOOLEAN,
    evs  : IF c.nused >= c.nread THEN {"stale"} ELSE {"stale", "wild"} ]

NextLen ==
  \/ \E in \in LenInputs(et) : DoCodaRead(in)
  \/ \E det, cls \in {"ok", "error"} : DoCodaClose(det, cls)

SpecLen == InitEt /\ [][NextLen]_vars

(***************************************************************************)
(* C36: the length check over every 32-bit value of word0.                 *)
(***************************************************************************)
\* word0, read as the unsigned count of following words, makes
\* word0 + 1 exceed MAXEVLEN: it is at least MAXEVLEN, or has bit 31 set
\* (then the Int_t is negative)
OverLength(ev) == ev.word0 >= MAXEVLEN \/ ev.word0 < 0

\* C36: every word0 for which word0 + 1 exceeds MAXEVLEN is rejected with
\* CODA_ERROR, word0 = 0x7FFFFFFF and every word0 with bit 31 set included:
\* the call that fetches a chunk holding such an event returns CODA_ERROR
\* and copies nothing
C36_LengthCheckAllWords ==
  (Fetched /\ \E j \in DOMAIN etchunk : OverLength(etchunk[j]))
    => etcall.status = "CODA_ERROR" /\ etcall.copied = NoEvent

\* what holds: an event with MAXEVLEN <= word0 < 0x7FFFFFFF is rejected; a
\* chunk whose events all have word0 < MAXEVLEN as Int_t, the negative ones
\* included, passes the length check
C36_SignedLengthCheck ==
  Fetched =>
    /\ (\E j \in DOMAIN etchunk :
          etchunk[j].word0 >= MAXEVLEN /\ etchunk[j].word0 < kMaxInt)
         => etcall.status = "CODA_ERROR" /\ etcall.copied = NoEvent
    /\ (\A j \in DOMAIN etchunk : etchunk[j].word0 < MAXEVLEN)
         => etcall.copied = etchunk[1]

\* an event with word0 = 0xFFFFFFFF handed out with CODA_OK
C36_AllOnesAccepted ==
  Fetched /\ etchunk = <<EvAllOnes>> /\ etcall.copied = EvAllOnes
    /\ etcall.status = "CODA_OK"

\* an event with word0 = 0x7FFFFFFF handed out with CODA_OK
C36_MaxIntAccepted ==
  Fetched /\ etchunk = <<EvMaxInt>> /\ etcall.copied = EvMaxInt
    /\ etcall.status = "CODA_OK"

(***************************************************************************)
(* C37: the debug level does not influence decoding.                       *)
(***************************************************************************)
\* the two SplitBuffer runs from the module state m on buf agree
SameDecoding(r0, r1) ==
  /\ r0.m.eventblock = r1.m.eventblock
  /\ r0.m.index_buffer = r1.m.index_buffer
  /\ r0.m.fBlockIsDone = r1.m.fBlockIsDone
  /\ r0.code = r1.code

\* C37: for the same module state and the same buffer, SplitBuffer run with
\* fDebug = 0 and with fDebug >= 1 ends with the same eventblock, the same
\* index_buffer, the same done flag and the same return value, and neither
\* run throws
C37_DebugStep ==
  SplitStep(1) =>
    \A r0 \in {SplitBuffer([pm[1] EXCEPT !.fDebug = 0], codabuffer'[1])} :
      \A r1 \in {SplitBuffer([pm[1] EXCEPT !.fDebug = 1], codabuffer'[1])} :
        SameDecoding(r0, r1) /\ ~r0.thrown /\ ~r1.thrown

C37_DebugIndependent == [][C37_DebugStep]_vars

\* what holds: fDebug = 0 never throws; the two runs leave the same
\* eventblock and return value whenever the run with fDebug >= 1 does not
\* throw, and the same cursor when the call starts with index_buffer = 0
C37_DebugStepWeak ==
  SplitStep(1) =>
    \A r0 \in {SplitBuffer([pm[1] EXCEPT !.fDebug = 0], codabuffer'[1])} :
      \A r1 \in {SplitBuffer([pm[1] EXCEPT !.fDebug = 1], codabuffer'[1])} :
        /\ ~r0.thrown
        /\ r0.m.eventblock = r1.m.eventblock
        /\ r0.code = r1.code
        /\ r0.m.fBlockIsDone = r1.m.fBlockIsDone
        /\ r1.thrown <=> (r1.m.fMultiBlockMode /\ r1.m.eventblock = <<>>)
        /\ (pm[1].index_buffer = 0 \/ ~r1.m.fMultiBlockMode)
             => r0.m.index_buffer = r1.m.index_buffer

C37_SameBlocks == [][C37_DebugStepWeak]_vars

(***************************************************************************)
(* The key comparison of LoadDBvalue: one LoadDBvalue call on a file of    *)
(* assignments whose keys are "nw", "NW", "nwires" and "Nwires".           *)
(***************************************************************************)
NW == <<"N", "W">>
Nwires == <<"N", "w", "i", "r", "e", "s">>
CaseKeys == {nw, NW, nwires, Nwires}

\* files of n assignments; an assignment's value is its line number
RECURSIVE KeyFilesOfLen(_)
KeyFilesOfLen(n) ==
  IF n = 0 THEN {<<>>}
  ELSE {Append(f, KeyLine(k, n)) : f \in KeyFilesOfLen(n - 1), k \in CaseKeys}

KeyFiles == UNION {KeyFilesOfLen(n) : n \in 0..MaxLines}

InitKey ==
  /\ PmIdle /\ FbIdle /\ EtIdle
  /\ dbfile \in KeyFiles
  /\ dbcall = NoDbCall
  /\ buffers = <<>>
  /\ hthread = [t \in HereThreads |-> NoHere]

NextKey ==
  \E date \in RequestDates, key \in CaseKeys, type \in ValueTypes :
    DoLoadDBvalue(date, key, type)

SpecKey == InitKey /\ [][NextKey]_vars

(***************************************************************************)
(* C38: which assignments LoadDBvalue accepts for the requested key.       *)
(***************************************************************************)
\* the letter in lower case
LowerChar(ch) == IF ch = "N" THEN "n" ELSE IF ch = "W" THEN "w" ELSE ch
\* the key in lower case
Lower(key) == [j \in DOMAIN key |-> LowerChar(key[j])]

\* the keys are equal but for letter case
SameKey(linekey, key) == Lower(linekey) = Lower(key)

\* the lines of the file whose key equals the requested key but for case
Matching(file, key) == { i \in DOMAIN file : SameKey(file[i].key, key) }

\* C38: LoadDBvalue accepts a 'key = value' line for the requested key
\* exactly when the text left of '=' equals the requested key, compared
\* without regard to letter case: in a file of assignments the call finds
\* the key exactly when such a line exists, and delivers the value of the
\* last one; a line whose key is a proper prefix of the requested key, or
\* begins with it, is no match
C38_KeyMatch ==
  LoadedText =>
    /\ dbcall.ret = 0 <=> Matching(dbfile, dbcall.key) # {}
    /\ dbcall.ret = 0
         => \E i \in Matching(dbfile, dbcall.key) :
              /\ dbcall.out = <<i>>
              /\ \A k \in Matching(dbfile, dbcall.key) : k <= i

\* what holds: the call finds the key exactly when the key of some line is
\* the requested key or a beginning of it, letter for letter, and delivers
\* the value of the last such line; a line whose key is longer than the
\* requested key is never accepted
C38_PrefixMatch ==
  LoadedText =>
    LET acc == { i \in DOMAIN dbfile :
                   /\ Len(dbfile[i].key) <= Len(dbcall.key)
                   /\ \A j \in DOMAIN dbfile[i].key :
                        dbfile[i].key[j] = dbcall.key[j] }
    IN  /\ dbcall.ret = 0 <=> acc # {}
        /\ dbcall.ret = 0
             => \E i \in acc : dbcall.out = <<i>> /\ \A k \in acc : k <= i

\* the value of "nw" delivered for the requested key "nwires"
C38_PrefixAccepted ==
  LoadedText /\ dbfile = <<KeyLine(nw, 1)>> /\ dbcall.key = nwires
    /\ dbcall.ret = 0 /\ dbcall.out = <<1>>

\* "NW = ..." not found for the requested key "nw"
C38_CaseRejected ==
  LoadedText /\ dbfile = <<KeyLine(NW, 1)>> /\ dbcall.key = nw
    /\ dbcall.ret = 1

====
